---- MODULE Spec2Model ----
(***************************************************************************)
(* git-backup: the server process (server.js, latest revision) and the     *)
(* backup engine (backup.js, latest revision).                             *)
(*                                                                         *)
(* One state machine of the Node.js process.  JavaScript runs one callback *)
(* at a time: a callback runs to its next `await` without interruption, so *)
(* the atomic steps of the model are the stretches of code between two     *)
(* awaits.  Every external call (git, rsync, copilot, the stores) may fail *)
(* and its outcome is a nondeterministic choice.                           *)
(***************************************************************************)
EXTENDS Integers, Sequences, FiniteSets, TLC

\* ------------------------------------------------------------------ bounds
MaxInvocations == 2     \* invocations of runFullBackup alive at once
MaxTriggers == 2        \* triggers (start, cron ticks, POST /backup) per run
MaxFaults == 1          \* external calls that fail per run

MaxAppends == 503       \* appends to the history store (history runs)
MaxLimit == 3           \* largest limit asked of getHistory (history runs)

MaxMappings == 3        \* mappings in the store (mapping store runs)
MaxPatterns == 2        \* patterns in an ignore list (file sync runs)

MAX_ENTRIES == 500      \* history.js: MAX_ENTRIES

VARIABLES
    booted,             \* module load has run the initial runFullBackup()
    backupInProgress,   \* part_004:20  let backupInProgress = false
    pc,                 \* position of each invocation of runFullBackup
    cyc,                \* locals of each invocation of runFullBackup
    store,              \* the mapping store (config.js), as getMappings() lists it
    source,             \* content of each mapping's sourceDir
    repo,               \* the working copy at /repo
    remote,             \* the branch on the remote repository
    history,            \* the history store (history.js), newest first
    nextSha,            \* next fresh commit identifier
    nTriggers,          \* triggers so far
    foundClear,         \* triggers that arrived while backupInProgress was false
    started,            \* invocations that set backupInProgress
    faults,             \* external calls that have failed so far
    answer              \* the response a route handler is sending (server
                        \* runs); the latest history query and what it
                        \* returned (history runs)

vars == <<booted, backupInProgress, pc, cyc, store, source, repo, remote,
          history, nextSha, nTriggers, foundClear, started, faults, answer>>

Invocations == 1..MaxInvocations
MappingIds == {1, 2}            \* the ids of the mappings in the store
NoId == 0                       \* mappingId undefined (falsy)
AbsentId == Cardinality(MappingIds) + 1   \* an id no mapping of the store has
Meta == 0                       \* README.md and the mirrored config file
Paths == MappingIds \cup {Meta} \* the parts of the repository tree
Versions == {0, 1}              \* the contents a directory may have

\* -------------------------------------------------------------- positions
\* Positions at an await: the invocation is suspended on an external call.
AwaitPcs == {"clone", "checkout", "checkoutLocal", "addConfig",
             "status", "add", "copilotLog", "fallbackCommit", "push", "log",
             "hkStatus", "hkAdd", "hkCommit", "hkPush"}
\* Positions inside a synchronous stretch: nothing else runs until it ends.
SyncPcs == {"select", "loop", "housekeeping", "copilotHung"}
\* The promise has settled; the caller's handler runs next (a microtask).
DonePcs == {"returned", "threw", "rejected"}

\* An invocation is in its running phase: between part_004:81 and :230.
Running(p) == p \in AwaitPcs \cup SyncPcs

\* No route handler is in mid-run.
NoHandler == answer = [op |-> "none"]
\* The event loop is free to run a new callback (timer, HTTP request).
Quiescent == /\ \A i \in Invocations : pc[i] \in AwaitPcs \cup {"idle"}
             /\ NoHandler
\* Invocation i may be resumed: no other callback is in mid-run.
OthersQuiet(i) == /\ \A j \in Invocations \ {i} : pc[j] \in AwaitPcs \cup {"idle"}
                  /\ NoHandler

\* ------------------------------------------------------------- data model
NoCycle == [kind |-> "none", mappingId |-> NoId, no |-> 0,
            mappings |-> <<>>, k |-> 0, results |-> <<>>,
            filesChanged |-> 0, commitMessage |-> "none",
            ops |-> <<>>, exit |-> "none", found |-> "none"]

\* No response is being sent; no history query has been made since the
\* history last changed.
NoAnswer == [op |-> "none"]

NoRepo == [exists |-> FALSE,
           wt |-> [p \in Paths |-> 0], index |-> [p \in Paths |-> 0],
           head |-> [p \in Paths |-> 0], sha |-> 0, msg |-> "none"]

\* A mapping: id, name, enabled, whether sourceDir or repoSubdir holds one of
\* the characters " ' ; |  (part_002:81-85), and whether repoSubdir is empty,
\* so that the mapping targets the root of the repository (part_002:77).
Mapping(id, en, bad, root) ==
    [id |-> id, name |-> id, enabled |-> en, badPath |-> bad, root |-> root]

\* The stores: no two mappings share a repoSubdir, so at most one is a root
\* mapping.
Stores == {s \in [MappingIds -> BOOLEAN \X BOOLEAN \X BOOLEAN] :
              Cardinality({n \in MappingIds : s[n][3]}) <= 1}
StoreOf(f) == [n \in 1..Cardinality(MappingIds) |->
                  Mapping(n, f[n][1], f[n][2], f[n][3])]

Init ==
    /\ booted = FALSE
    /\ backupInProgress = FALSE
    /\ pc = [i \in Invocations |-> "idle"]
    /\ cyc = [i \in Invocations |-> NoCycle]
    /\ store \in {StoreOf(f) : f \in Stores}
    /\ source = [m \in MappingIds |-> 0]
    /\ repo = NoRepo
    /\ remote \in {[content |-> [p \in Paths |-> 0], sha |-> 0, msg |-> "old",
                    branch |-> b] : b \in BOOLEAN}
    /\ history = <<>>
    /\ nextSha = 1
    /\ nTriggers = 0
    /\ foundClear = 0
    /\ started = 0
    /\ faults = 0
    /\ answer = NoAnswer


\* --------------------------------------------------------- external calls
\* The outcomes an external call may have: success, or failure while the run's
\* budget of failures lasts.
Choices(all, good) == IF faults < MaxFaults THEN all ELSE {good}
Outcomes == Choices(BOOLEAN, TRUE)
Fault(ok) == faults' = IF ok THEN faults ELSE faults + 1

\* ------------------------------------------------- runFullBackup: entering
\* Mutant: the guard test is missing.
AlreadyInProgress_Unchecked(guard) == FALSE

\* part_004:80  if (backupInProgress) throw new Error('Backup already in progress')
AlreadyInProgress(guard) == guard

\* Mutant: the guard test sits inside the try block, so that the finally
\* clause clears the guard for a rejected call as well.
GuardAfterReject_Cleared(guard) == FALSE

\* part_004:80-84  the throw precedes the try block: the finally clause does
\* not run and the guard keeps its value.
GuardAfterReject(guard) == guard

\* Mutant: the guard is not set on entry.
GuardOnEntry_Unset(guard) == guard

\* part_004:81  backupInProgress = true
GuardOnEntry(guard) == TRUE

\* Mutant: the guard is cleared after the try block, not in a finally.
FinallyGuard_OnReturnOnly(exit) == exit # "normal"

\* part_004:229-231  finally { backupInProgress = false }: the value of the
\* guard after the try block is left by way of `exit`.
FinallyGuard(exit) == FALSE

\* The promise of invocation i rejects with error `reason`; c is its locals.
Throw(i, c, reason) ==
    /\ pc' = [pc EXCEPT ![i] = "threw"]
    /\ cyc' = [cyc EXCEPT ![i] = [c EXCEPT !.exit = reason]]
    /\ backupInProgress' = FinallyGuard(reason)

Op(c, name, m) == [c EXCEPT !.ops = Append(@, <<name, m>>)]
\* A commit `sha` with message `msg` was made during the sync of mapping m.
Committed(c, m, sha, msg) ==
    [c EXCEPT !.ops = Append(@, <<"committed", m, sha, msg>>)]

FreshCycle(kind, a) ==
    [NoCycle EXCEPT !.kind = kind, !.mappingId = a, !.no = nTriggers + 1]

\* Mutant: the existing working copy is kept.
RemoveWorkingCopy_Kept(r) == r

\* part_002:45-51  fs.rmSync(repoDir, { recursive: true, force: true })
RemoveWorkingCopy(r) == NoRepo

\* The working copy left by an earlier cycle differs from the remote branch:
\* it holds unpushed commits, staged changes or changed files.
Stale(r) ==
    /\ r.exists
    /\ \/ r.wt # remote.content \/ r.index # remote.content
       \/ r.head # remote.content \/ r.sha # remote.sha

\* The working copy a cycle finds when it starts: absent (no earlier cycle got
\* as far as a complete clone), stale, or equal to the remote branch.
Found(r) == IF ~r.exists THEN "absent" ELSE IF Stale(r) THEN "stale" ELSE "clean"

\* part_004:79-89 up to the first await: the guard check, the guard set,
\* getSettings() (config.js, may throw), and prepareRepo up to the clone
\* (part_002:42-54: the working copy is removed).
Enter(i, kind, a) ==
    /\ nTriggers' = nTriggers + 1
    /\ foundClear' = foundClear + (IF backupInProgress THEN 0 ELSE 1)
    /\ IF AlreadyInProgress(backupInProgress)
       THEN /\ pc' = [pc EXCEPT ![i] = "rejected"]
            /\ cyc' = [cyc EXCEPT ![i] =
                          [FreshCycle(kind, a) EXCEPT !.exit = "conflict"]]
            /\ backupInProgress' = GuardAfterReject(backupInProgress)
            /\ UNCHANGED <<repo, started, faults>>
       ELSE /\ started' = started + 1
            /\ \E settingsOk \in Outcomes :
                 /\ Fault(settingsOk)
                 /\ IF settingsOk
                    THEN /\ backupInProgress' = GuardOnEntry(backupInProgress)
                         /\ pc' = [pc EXCEPT ![i] = "clone"]
                         /\ cyc' = [cyc EXCEPT ![i] =
                                       Op([FreshCycle(kind, a) EXCEPT
                                              !.found = Found(repo)], "rm", Meta)]
                         /\ repo' = RemoveWorkingCopy(repo)
                    ELSE /\ Throw(i, FreshCycle(kind, a), "settings")
                         /\ UNCHANGED repo
    /\ UNCHANGED <<store, answer, source, remote, history, nextSha>>

\* The least free invocation slot.
FreeSlot(i) == /\ pc[i] = "idle"
               /\ \A j \in Invocations : j < i => pc[j] # "idle"

\* Mutant: the scheduled ticks back up one mapping only.
TickRequest_Filtered(kind) ==
    IF kind = "cron" THEN CHOOSE m \in MappingIds : TRUE ELSE NoId

\* part_004:337,341  runFullBackup(): the start trigger and the scheduled
\* ticks pass no mapping id.
TickRequest(kind) == NoId

\* part_004:337  runFullBackup() at module load.
InitialBackup ==
    /\ ~booted
    /\ booted' = TRUE
    /\ \E i \in Invocations : FreeSlot(i) /\ Enter(i, "init", TickRequest("init"))

\* part_004:339-342  the cron callback.
CronTick ==
    /\ booted /\ Quiescent /\ nTriggers < MaxTriggers
    /\ UNCHANGED booted
    /\ \E i \in Invocations : FreeSlot(i) /\ Enter(i, "cron", TickRequest("cron"))

\* part_004:310-319  POST /backup?mappingId=a
PostBackup ==
    /\ booted /\ Quiescent /\ nTriggers < MaxTriggers
    /\ UNCHANGED booted
    /\ \E i \in Invocations, a \in MappingIds \cup {NoId, AbsentId} :
         /\ FreeSlot(i)
         /\ IF backupInProgress
            THEN /\ pc' = [pc EXCEPT ![i] = "rejected"]
                 /\ cyc' = [cyc EXCEPT ![i] =
                               [FreshCycle("post", a) EXCEPT !.exit = "409"]]
                 /\ nTriggers' = nTriggers + 1
                 /\ UNCHANGED <<backupInProgress, repo, started, foundClear,
                                store, answer, source, remote, history, nextSha, faults>>
            ELSE Enter(i, "post", a)

\* The caller's handler consumes the settled promise: .catch logs the error
\* (part_004:337,341), the route handler sends the response (part_004:313-318).
Collect(i) ==
    /\ pc[i] \in DonePcs
    /\ pc' = [pc EXCEPT ![i] = "idle"]
    /\ cyc' = [cyc EXCEPT ![i] = NoCycle]
    /\ UNCHANGED <<booted, backupInProgress, store, answer, source, repo, remote,
                   history, nextSha, nTriggers, foundClear, started, faults>>

\* ------------------------------------------------------------ prepareRepo
\* Mutant: a failed local branch creation is swallowed like a failed checkout.
PrepareErrorPropagates_CheckoutSwallowed(err) == err # "checkout"

\* part_004:89  const repoGit = await prepareRepo(globalConfig): no catch
\* surrounds the call, so an error of prepareRepo leaves the try block.
PrepareErrorPropagates(err) == TRUE

\* prepareRepo rejects with `err`.
PrepareFailed(i, err) ==
    LET c == Op(cyc[i], "prepareFailed", Meta) IN
    IF PrepareErrorPropagates(err)
    THEN Throw(i, c, err)
    ELSE /\ pc' = [pc EXCEPT ![i] = "select"]
         /\ cyc' = [cyc EXCEPT ![i] = c]
         /\ UNCHANGED backupInProgress

\* part_002:54  await simpleGit().clone(repoUrl, repoDir)
CloneDone(i) ==
    /\ pc[i] = "clone" /\ OthersQuiet(i)
    /\ \E ok \in Outcomes :
         /\ Fault(ok)
         /\ IF ok
            THEN /\ repo' = [exists |-> TRUE, wt |-> remote.content,
                             index |-> remote.content, head |-> remote.content,
                             sha |-> remote.sha, msg |-> remote.msg]
                 /\ pc' = [pc EXCEPT ![i] = "checkout"]
                 /\ cyc' = [cyc EXCEPT ![i] = Op(@, "clone", Meta)]
                 /\ UNCHANGED backupInProgress
            ELSE /\ PrepareFailed(i, "clone")
                 /\ UNCHANGED repo
    /\ UNCHANGED <<booted, store, answer, source, remote, history, nextSha,
                   nTriggers, foundClear, started>>

\* Mutant: a failed checkout is not caught.
CheckoutErrorCaught_Rethrown(err) == FALSE

\* part_002:59  } catch {  around repoGit.checkout(branch)
CheckoutErrorCaught(err) == TRUE

\* part_002:57-59  try { await repoGit.checkout(branch) } catch {
\* The checkout fails when the branch does not exist on the remote.
Checkout(i) ==
    /\ pc[i] = "checkout" /\ OthersQuiet(i)
    /\ \E ok \in Outcomes :
         /\ Fault(ok)
         /\ IF ok /\ remote.branch
            THEN /\ pc' = [pc EXCEPT ![i] = "addConfig"]
                 /\ UNCHANGED <<cyc, backupInProgress>>
            ELSE IF CheckoutErrorCaught("checkout")
            THEN /\ pc' = [pc EXCEPT ![i] = "checkoutLocal"]
                 /\ UNCHANGED <<cyc, backupInProgress>>
            ELSE PrepareFailed(i, "checkout")
    /\ UNCHANGED <<booted, store, answer, source, repo, remote,
                   history, nextSha, nTriggers, foundClear, started>>

\* part_002:60  await repoGit.checkoutLocalBranch(branch)
CheckoutLocal(i) ==
    /\ pc[i] = "checkoutLocal" /\ OthersQuiet(i)
    /\ \E ok \in Outcomes :
         /\ Fault(ok)
         /\ IF ok
            THEN /\ pc' = [pc EXCEPT ![i] = "addConfig"]
                 /\ UNCHANGED <<cyc, backupInProgress>>
            ELSE PrepareFailed(i, "checkout")
    /\ UNCHANGED <<booted, store, answer, source, repo, remote, history, nextSha,
                   nTriggers, foundClear, started>>

\* part_002:63-67  the three addConfig calls; prepareRepo returns.
AddConfig(i) ==
    /\ pc[i] = "addConfig" /\ OthersQuiet(i)
    /\ \E ok \in Outcomes :
         /\ Fault(ok)
         /\ IF ok
            THEN /\ pc' = [pc EXCEPT ![i] = "select"]
                 /\ UNCHANGED <<cyc, backupInProgress>>
            ELSE PrepareFailed(i, "gitconfig")
    /\ UNCHANGED <<booted, store, answer, source, repo, remote, history, nextSha,
                   nTriggers, foundClear, started>>

\* ------------------------------------------------------ mapping selection
\* Mutant: the requested id does not narrow the selection.
SelectMappings_NotNarrowed(all, mappingId) ==
    SelectSeq(all, LAMBDA m : m.enabled)

\* Mutant: disabled mappings are not filtered out.
SelectMappings_DisabledKept(all, mappingId) ==
    IF mappingId # NoId
    THEN SelectSeq(all, LAMBDA m : m.id = mappingId)
    ELSE all

\* part_004:101-104  getMappings().filter(enabled), narrowed to mappingId.
SelectMappings(all, mappingId) ==
    LET enabled == SelectSeq(all, LAMBDA m : m.enabled)
    IN  IF mappingId # NoId
        THEN SelectSeq(enabled, LAMBDA m : m.id = mappingId)
        ELSE enabled

\* part_004:101-106  getMappings() (config.js, may throw), the selection, and
\* the throw when a requested mapping is absent or disabled.
Select(i) ==
    /\ pc[i] = "select"
    /\ \E storeOk \in Outcomes :
         /\ Fault(storeOk)
         /\ IF ~storeOk
            THEN Throw(i, cyc[i], "store")
            ELSE LET sel == SelectMappings(store, cyc[i].mappingId)
                 IN  IF cyc[i].mappingId # NoId /\ Len(sel) = 0
                     THEN Throw(i, cyc[i], "notfound")
                     ELSE /\ pc' = [pc EXCEPT ![i] = "loop"]
                          /\ cyc' = [cyc EXCEPT ![i].mappings = sel, ![i].k = 1]
                          /\ UNCHANGED backupInProgress
    /\ UNCHANGED <<booted, store, answer, source, repo, remote, history, nextSha,
                   nTriggers, foundClear, started>>

\* -------------------------------------------------------- repository URLs
\* A string is the sequence of its tokens: the scheme with its colon, "//",
\* "@", ":", "/", ".", host names, and the words of names and credentials.
\* null
Null == [null |-> TRUE]

StartsWith(s, prefix) ==
    Len(s) >= Len(prefix) /\ SubSeq(s, 1, Len(prefix)) = prefix
EndsWith(s, suffix) ==
    Len(s) >= Len(suffix) /\ SubSeq(s, Len(s) - Len(suffix) + 1, Len(s)) = suffix
Drop(s, n) == SubSeq(s, n + 1, Len(s))
\* s.indexOf(t), counted from 1; 0 when t does not occur.
IndexOf(s, t) ==
    LET hits == {n \in DOMAIN s : s[n] = t}
    IN  IF hits = {} THEN 0 ELSE CHOOSE n \in hits : \A x \in hits : n <= x
LastIndexOf(s, t) ==
    LET hits == {n \in DOMAIN s : s[n] = t}
    IN  IF hits = {} THEN 0 ELSE CHOOSE n \in hits : \A x \in hits : n >= x

DotGit == <<".", "git">>
\* github.js:12  .replace(/\.git$/, '')
StripDotGit(s) == IF EndsWith(s, DotGit) THEN SubSeq(s, 1, Len(s) - 2) ELSE s

\* github.js:5  the literal head of the pattern: git@github\.com:
SshHead == <<"git", "@", "github.com", ":">>

\* github.js:5  /git@github\.com:([^/]+)\/([^/.]+)(?:\.git)?$/ tried at
\* position p: the owner runs to the first "/", the repository name holds
\* neither "/" nor ".", and only ".git" may follow it.
SshMatchAt(url, p) ==
    LET rest == IF p + Len(SshHead) - 1 <= Len(url)
                THEN Drop(url, p + Len(SshHead) - 1) ELSE <<>>
        slash == IndexOf(rest, "/")
        owner == SubSeq(rest, 1, slash - 1)
        tail == Drop(rest, slash)
        name == StripDotGit(tail)
    IN  IF /\ p + Len(SshHead) - 1 <= Len(url)
           /\ SubSeq(url, p, p + Len(SshHead) - 1) = SshHead
           /\ slash > 1
           /\ name # <<>>
           /\ \A n \in DOMAIN name : name[n] \notin {"/", "."}
        THEN [owner |-> owner, repo |-> name]
        ELSE Null

\* url.match(...): the leftmost position at which the pattern matches.
SshMatch(url) ==
    LET hits == {p \in DOMAIN url : SshMatchAt(url, p) # Null}
    IN  IF hits = {} THEN Null
        ELSE SshMatchAt(url, CHOOSE p \in hits : \A x \in hits : p <= x)

\* The schemes new URL() gives an authority and a path.
Schemes == {"https:", "http:", "ssh:"}

\* new URL(url): the parts of the URL, or null when the constructor throws
\* (no scheme, no host).  The authority runs from "//" to the first "/"; what
\* precedes its last "@" is the user information, username before the first
\* ":" and password after it.
ParseUrl(url) ==
    IF ~(Len(url) >= 3 /\ url[1] \in Schemes /\ url[2] = "//") THEN Null
    ELSE LET after == Drop(url, 2)
             slash == IndexOf(after, "/")
             authority == IF slash = 0 THEN after ELSE SubSeq(after, 1, slash - 1)
             at == LastIndexOf(authority, "@")
             userinfo == SubSeq(authority, 1, at - 1)
             host == Drop(authority, at)
             colon == IndexOf(userinfo, ":")
         IN  IF Len(host) # 1 \/ host[1] \in {":", ".", "@"} THEN Null
             ELSE [protocol |-> url[1],
                   username |-> IF colon = 0 THEN userinfo
                                ELSE SubSeq(userinfo, 1, colon - 1),
                   password |-> IF colon = 0 THEN <<>> ELSE Drop(userinfo, colon),
                   hostname |-> host[1],
                   pathname |-> IF slash = 0 THEN <<"/">> ELSE Drop(after, slash - 1)]

\* url.toString()
Serialize(u) ==
    <<u.protocol, "//">>
    \o (IF u.username = <<>> /\ u.password = <<>> THEN <<>>
        ELSE u.username
             \o (IF u.password = <<>> THEN <<>> ELSE <<":">> \o u.password)
             \o <<"@">>)
    \o <<u.hostname>> \o u.pathname

\* github.js:12  .split('/').filter(Boolean): the non-empty segments of a path.
Segments(path) ==
    LET n == Len(path)
        \* the last position of the segment that starts at k
        End(k) == IF \E j \in k..n : path[j] = "/"
                  THEN (CHOOSE j \in k..n : /\ path[j] = "/"
                                            /\ \A x \in k..(j - 1) : path[x] # "/") - 1
                  ELSE n
        from[k \in 1..(n + 1)] ==
            IF k > n THEN <<>>
            ELSE IF path[k] = "/" THEN from[k + 1]
            ELSE <<SubSeq(path, k, End(k))>> \o from[End(k) + 1]
    IN  from[1]

\* github.js:1-19  parseRepoUrl(url)
parseRepoUrl(url) ==
    IF url = <<>> THEN Null
    ELSE IF SshMatch(url) # Null THEN SshMatch(url)
    ELSE LET parsed == ParseUrl(url) IN
         IF parsed = Null THEN Null
         ELSE IF parsed.hostname # "github.com" THEN Null
         ELSE LET parts == Segments(StripDotGit(parsed.pathname))
              IN  IF Len(parts) >= 2 THEN [owner |-> parts[1], repo |-> parts[2]]
                  ELSE Null

\* `https://github.com/${owner}/${repo}/commit/${sha}`: a string, held in a
\* record so that it can be told from null.
CommitUrl(owner, name, sha) ==
    [href |-> <<"https:", "//", "github.com", "/">> \o owner \o <<"/">> \o name
              \o <<"/", "commit", "/", ToString(sha)>>]

\* github.js:23-24  if (!parsed) return null; return `https://...`
CommitUrlOf(parsed, sha) ==
    IF parsed = Null THEN Null ELSE CommitUrl(parsed.owner, parsed.repo, sha)

\* github.js:21-25  buildCommitUrl(repoUrl, sha)
buildCommitUrl(repoUrl, sha) == CommitUrlOf(parseRepoUrl(repoUrl), sha)

\* --------------------------------------------- the per-mapping loop body
\* Mutant: the list is walked from its end.
Current_Reversed(c) == c.mappings[Len(c.mappings) - c.k + 1]

\* part_004:108  for (const mapping of mappings): the mapping of this turn.
Current(c) == c.mappings[c.k]

\* Mutant: rsync errors escape the per-mapping catch.
CaughtPerMapping_NotRsync(err) == err # "rsync"

\* Mutant: the history append sits outside the per-mapping try block.
CaughtPerMapping_NotHistory(err) == err # "history"

\* part_004:127  catch (err): which errors thrown inside the loop body's try
\* block (part_004:109-126) are caught there.
CaughtPerMapping(err) == TRUE

\* Mutant: the error is logged but no entry is pushed.
RecordError_Dropped(c, err) == [c EXCEPT !.k = @ + 1]

\* part_004:128-129  results.push({ mappingId, mappingName, error })
RecordError(c, err) ==
    [c EXCEPT !.results = Append(@, [mappingId |-> Current(c).id,
                                     mappingName |-> Current(c).name,
                                     error |-> err]),
              !.k = @ + 1]

\* part_004:125  results.push({ mappingId, mappingName, noChanges: true })
RecordNoChange(c) ==
    [c EXCEPT !.results = Append(@, [mappingId |-> Current(c).id,
                                     mappingName |-> Current(c).name,
                                     noChanges |-> TRUE]),
              !.k = @ + 1]

\* part_004:112  process.env.GIT_REPO_URL, as the server runs read it.
GIT_REPO_URL == <<"https:", "//", "github.com", "/", "o", "/", "r", ".", "git">>

\* github.js:22  parseRepoUrl(repoUrl) for the URL above: the same on every
\* call of buildCommitUrl the server makes.
Repository == parseRepoUrl(GIT_REPO_URL)

\* Mutant: the entry carries no commit URL.
Entry_NoCommitUrl(c, sha) ==
    [timestamp |-> c.no, mappingId |-> Current(c).id,
     mappingName |-> Current(c).name, commitSha |-> sha,
     commitMessage |-> c.commitMessage, filesChanged |-> c.filesChanged,
     commitUrl |-> Null]

\* part_004:112-121  the history entry of a successful mapping.
Entry(c, sha) ==
    [timestamp |-> c.no, mappingId |-> Current(c).id,
     mappingName |-> Current(c).name, commitSha |-> sha,
     commitMessage |-> c.commitMessage, filesChanged |-> c.filesChanged,
     commitUrl |-> CommitUrlOf(Repository, sha)]

\* part_004:123  results.push(entry)
RecordSuccess(c, sha) ==
    [c EXCEPT !.results = Append(@, Entry(c, sha)), !.k = @ + 1]

\* Mutant: a full list keeps its entries and drops the new one.
addHistoryEntry_EvictNewest(entries, entry) ==
    IF Len(entries) >= MAX_ENTRIES THEN entries ELSE <<entry>> \o entries

\* IMPLEMENTATION_SUMMARY.md:206-213  addHistoryEntry
addHistoryEntry(entries, entry) ==
    LET unshifted == <<entry>> \o entries
    IN  IF Len(unshifted) > MAX_ENTRIES
        THEN SubSeq(unshifted, 1, MAX_ENTRIES)
        ELSE unshifted

\* An error `err` is thrown inside the try block of the loop body.
MappingFailed(i, c, err) ==
    IF CaughtPerMapping(err)
    THEN /\ pc' = [pc EXCEPT ![i] = "loop"]
         /\ cyc' = [cyc EXCEPT ![i] = RecordError(c, err)]
         /\ UNCHANGED backupInProgress
    ELSE Throw(i, c, err)

\* runBackupForMapping throws `err` for the current mapping.
SyncThrew(i, c, err) == MappingFailed(i, Op(c, "threw", Current(c).id), err)

\* Mutant: the path validation is missing.
InvalidPath_Unchecked(m) == FALSE

\* part_002:81-85  the path validation.
InvalidPath(m) == m.badPath

\* part_002:132  the files git status reports: every part of the tree whose
\* working-tree content differs from the last commit.
StatusFiles(r) == {p \in Paths : r.wt[p] # r.head[p]}

\* Mutant: the early return is missing.
NoChanges_Never(files) == FALSE

\* part_002:133  if (status.files.length === 0) return null
NoChanges(files) == Cardinality(files) = 0

\* part_002:77  targetDir: the parts of the repository tree that lie under the
\* mapping's target directory; the root of the repository holds them all.
TargetPaths(m) == IF m.root THEN Paths ELSE {m.id}

\* part_002:93-122  rsync -av --delete sourceDir/ targetDir/: the mapping's
\* part of the tree takes the content of the source, and whatever else lies
\* under targetDir and is not in the source is deleted (content 0: nothing).
Rsync(wt, m, src) ==
    [p \in Paths |-> IF p = m.id THEN src
                     ELSE IF p \in TargetPaths(m) THEN 0 ELSE wt[p]]

\* Mutant: a two-way sync, which brings the target's content into the source.
SourceAfterSync_TwoWay(src, m, wt) == [src EXCEPT ![m.id] = wt[m.id]]

\* part_002:118-120  rsync sourceDir/ targetDir/: the source directories after
\* the file sync of mapping m; rsync only reads sourceDir.
SourceAfterSync(src, m, wt) == src

\* git commit: the index becomes the new HEAD.
Commit(r, msg, sha) == [r EXCEPT !.head = r.index, !.sha = sha, !.msg = msg]

\* part_004:108-110 and part_002:74-132: the loop test, then, for the next
\* mapping, runBackupForMapping up to its first await: path validation,
\* rsync (spawnSync), and the call of repoGit.status().
Loop(i) ==
    /\ pc[i] = "loop"
    /\ LET c == cyc[i] IN
       IF c.k > Len(c.mappings)
       THEN /\ pc' = [pc EXCEPT ![i] = "housekeeping"]
            /\ UNCHANGED <<cyc, repo, backupInProgress, faults>>
       ELSE LET m == Current(c)
                called == Op(c, "call", m.id)
            IN  IF InvalidPath(m)
                THEN /\ SyncThrew(i, called, "path")
                     /\ UNCHANGED <<repo, faults>>
                ELSE \E rsync \in Choices({"ok", "failed", "failedPartway"}, "ok") :
                       LET synced == Op(called, "rsync", m.id) IN
                       /\ Fault(rsync = "ok")
                       /\ repo' = IF rsync = "failed" THEN repo
                                  ELSE [repo EXCEPT
                                          !.wt = Rsync(@, m, source[m.id])]
                       /\ IF rsync = "ok"
                          THEN /\ pc' = [pc EXCEPT ![i] = "status"]
                               /\ cyc' = [cyc EXCEPT ![i] = synced]
                               /\ UNCHANGED backupInProgress
                          ELSE SyncThrew(i, synced, "rsync")
    /\ source' = IF /\ cyc[i].k <= Len(cyc[i].mappings)
                    /\ ~InvalidPath(Current(cyc[i]))
                 THEN SourceAfterSync(source, Current(cyc[i]), repo.wt)
                 ELSE source
    /\ UNCHANGED <<booted, store, answer, remote, history, nextSha,
                   nTriggers, foundClear, started>>

\* part_002:132-141  status resolves; null is returned when nothing differs
\* (part_004:124-126 records it), else repoGit.add('.') is called.
Status(i) ==
    /\ pc[i] = "status" /\ OthersQuiet(i)
    /\ LET c == Op(cyc[i], "status", Current(cyc[i]).id) IN
       \E ok \in Outcomes :
         /\ Fault(ok)
         /\ IF ~ok
            THEN SyncThrew(i, c, "status")
            ELSE LET files == StatusFiles(repo)
                     seen == IF Cardinality(files) = 0
                             THEN Op(c, "clean", Current(c).id) ELSE c
                 IN  /\ UNCHANGED backupInProgress
                     /\ IF NoChanges(files)
                        THEN /\ pc' = [pc EXCEPT ![i] = "loop"]
                             /\ cyc' = [cyc EXCEPT ![i] = RecordNoChange(seen)]
                        ELSE /\ pc' = [pc EXCEPT ![i] = "add"]
                             /\ cyc' = [cyc EXCEPT ![i] =
                                  [seen EXCEPT !.filesChanged = Cardinality(files)]]
    /\ UNCHANGED <<booted, store, answer, source, repo, remote, history, nextSha,
                   nTriggers, foundClear, started>>

\* Mutant: only a non-zero exit is caught; a tool that cannot be started makes
\* commitWithCopilot throw.
CopilotErrorCaught_ExitCodeOnly(err) == err # "spawnError"

\* part_002:172  catch (error): the errors thrown inside the try block of
\* commitWithCopilot (part_002:165-166) that are caught there.
CopilotErrorCaught(err) == TRUE

\* part_002:141-166  add resolves; commitWithCopilot runs copilot (spawnSync,
\* without a timeout): it commits and exits 0, exits 0 without a commit,
\* cannot be started, exits non-zero, or never exits ("hung": spawnSync does
\* not return and the event loop stays blocked).
Add(i) ==
    /\ pc[i] = "add" /\ OthersQuiet(i)
    /\ LET c == Op(cyc[i], "add", Current(cyc[i]).id) IN
       \E ok \in Outcomes :
         /\ IF ~ok
            THEN /\ SyncThrew(i, c, "add")
                 /\ Fault(ok)
                 /\ UNCHANGED <<repo, nextSha>>
            ELSE \E copilot \in Choices({"committed", "exit0", "spawnError",
                                         "nonzero", "hung"}, "committed") :
                   LET staged == [repo EXCEPT !.index = repo.wt]
                       ran == Op(c, "copilot", Current(c).id)
                       failed == Op(ran, "copilotFailed", Current(c).id)
                   IN
                   /\ Fault(copilot = "committed")
                   /\ IF copilot = "committed"
                      THEN /\ repo' = Commit(staged, "ai", nextSha)
                           /\ nextSha' = nextSha + 1
                      ELSE /\ repo' = staged
                           /\ UNCHANGED nextSha
                   /\ IF copilot \in {"committed", "exit0"}
                      THEN /\ pc' = [pc EXCEPT ![i] = "copilotLog"]
                           /\ cyc' = [cyc EXCEPT ![i] =
                                IF copilot = "committed"
                                THEN Committed(ran, Current(c).id, nextSha, "ai")
                                ELSE ran]
                           /\ UNCHANGED backupInProgress
                      ELSE IF copilot = "hung"
                      THEN /\ pc' = [pc EXCEPT ![i] = "copilotHung"]
                           /\ cyc' = [cyc EXCEPT ![i] = ran]
                           /\ UNCHANGED backupInProgress
                      ELSE IF CopilotErrorCaught(copilot)
                      THEN /\ pc' = [pc EXCEPT ![i] = "fallbackCommit"]
                           /\ cyc' = [cyc EXCEPT ![i] = failed]
                           /\ UNCHANGED backupInProgress
                      ELSE SyncThrew(i, failed, copilot)
    /\ UNCHANGED <<booted, store, answer, source, remote, history,
                   nTriggers, foundClear, started>>

\* part_002:170-171  the message of the latest commit is read back; an error
\* here is caught by part_002:172 and leads to the fallback commit.
CopilotLog(i) ==
    /\ pc[i] = "copilotLog" /\ OthersQuiet(i)
    /\ \E ok \in Outcomes :
         /\ Fault(ok)
         /\ IF ok
            THEN /\ pc' = [pc EXCEPT ![i] = "push"]
                 /\ cyc' = [cyc EXCEPT ![i].commitMessage = repo.msg]
            ELSE /\ pc' = [pc EXCEPT ![i] = "fallbackCommit"]
                 /\ cyc' = [cyc EXCEPT ![i] =
                               Op(@, "logFailed", Current(cyc[i]).id)]
    /\ UNCHANGED <<booted, backupInProgress, store, answer, source, repo, remote,
                   history, nextSha, nTriggers, foundClear, started>>

\* part_002:173-176  await repoGit.commit(fallbackMessage)
FallbackCommit(i) ==
    /\ pc[i] = "fallbackCommit" /\ OthersQuiet(i)
    /\ LET c == Op(cyc[i], "commit", Current(cyc[i]).id) IN
       \E ok \in Outcomes :
         /\ Fault(ok)
         /\ IF ~ok
            THEN /\ SyncThrew(i, c, "commit")
                 /\ UNCHANGED <<repo, nextSha>>
            ELSE /\ UNCHANGED backupInProgress
                 /\ pc' = [pc EXCEPT ![i] = "push"]
                 /\ IF repo.index # repo.head
                    THEN /\ repo' = Commit(repo, "fallback", nextSha)
                         /\ nextSha' = nextSha + 1
                         /\ cyc' = [cyc EXCEPT ![i] =
                              [Committed(c, Current(c).id, nextSha, "fallback")
                                 EXCEPT !.commitMessage = "fallback"]]
                    ELSE /\ UNCHANGED <<repo, nextSha>>
                         /\ cyc' = [cyc EXCEPT ![i] =
                              [c EXCEPT !.commitMessage = "fallback"]]
    /\ UNCHANGED <<booted, store, answer, source, remote, history,
                   nTriggers, foundClear, started>>

\* git push: the remote branch becomes the local HEAD.
Pushed(r) == [content |-> r.head, sha |-> r.sha, msg |-> r.msg, branch |-> TRUE]

\* Mutant: a failed push is ignored and the sync goes on.
PushErrorPropagates_Swallowed(err) == FALSE

\* part_002:147  the push is awaited outside any try block of
\* runBackupForMapping: its error leaves the function.
PushErrorPropagates(err) == TRUE

\* part_002:147  await repoGit.push(['--set-upstream', 'origin', branch])
Push(i) ==
    /\ pc[i] = "push" /\ OthersQuiet(i)
    /\ LET c == Op(cyc[i], "push", Current(cyc[i]).id) IN
       \E ok \in Outcomes :
         /\ Fault(ok)
         /\ IF ~ok
            THEN /\ IF PushErrorPropagates("push")
                    THEN SyncThrew(i, c, "push")
                    ELSE /\ UNCHANGED backupInProgress
                         /\ pc' = [pc EXCEPT ![i] = "log"]
                         /\ cyc' = [cyc EXCEPT ![i] = c]
                 /\ UNCHANGED remote
            ELSE /\ UNCHANGED backupInProgress
                 /\ pc' = [pc EXCEPT ![i] = "log"]
                 /\ cyc' = [cyc EXCEPT ![i] = Op(c, "pushed", Current(c).id)]
                 /\ remote' = Pushed(repo)
    /\ UNCHANGED <<booted, store, answer, source, repo, history, nextSha,
                   nTriggers, foundClear, started>>

\* part_002:150-153 and part_004:111-123: the commit id is read, the outcome
\* returned, the history entry appended (history.js, may throw) and pushed
\* onto the results.
Log(i) ==
    /\ pc[i] = "log" /\ OthersQuiet(i)
    /\ LET c == cyc[i] IN
       \E ok \in Outcomes :
         /\ IF ~ok
            THEN /\ SyncThrew(i, c, "log")
                 /\ Fault(ok)
                 /\ UNCHANGED history
            ELSE \E historyOk \in Outcomes :
                   LET returned == Op(c, "outcome", Current(c).id) IN
                   /\ Fault(historyOk)
                   /\ IF historyOk
                      THEN /\ history' = addHistoryEntry(history, Entry(c, repo.sha))
                           /\ pc' = [pc EXCEPT ![i] = "loop"]
                           /\ cyc' = [cyc EXCEPT ![i] =
                                RecordSuccess(Op(returned, "history", Current(c).id),
                                              repo.sha)]
                           /\ UNCHANGED backupInProgress
                      ELSE /\ MappingFailed(i, returned, "history")
                           /\ UNCHANGED history
    /\ UNCHANGED <<booted, store, answer, source, repo, remote, nextSha,
                   nTriggers, foundClear, started>>

\* ----------------------------------------------------------- housekeeping
\* part_004:229-233  the try block is left normally; results are returned.
Finish(i) ==
    /\ pc' = [pc EXCEPT ![i] = "returned"]
    /\ cyc' = [cyc EXCEPT ![i].exit = "normal"]
    /\ backupInProgress' = FinallyGuard("normal")

\* part_004:133-219  README sections and the config mirror are written (each
\* inside its own try/catch), leaving the housekeeping files at some content;
\* then repoGit.status() is called.
Housekeeping(i) ==
    /\ pc[i] = "housekeeping"
    /\ \E v \in Versions : repo' = [repo EXCEPT !.wt[Meta] = v]
    /\ pc' = [pc EXCEPT ![i] = "hkStatus"]
    /\ UNCHANGED <<booted, backupInProgress, cyc, store, answer, source, remote,
                   history, nextSha, nTriggers, foundClear, started, faults>>

\* part_004:219-221
HkStatus(i) ==
    /\ pc[i] = "hkStatus" /\ OthersQuiet(i)
    /\ \E ok \in Outcomes :
         /\ Fault(ok)
         /\ IF ok /\ Cardinality(StatusFiles(repo)) > 0
            THEN /\ pc' = [pc EXCEPT ![i] = "hkAdd"]
                 /\ UNCHANGED <<cyc, backupInProgress>>
            ELSE Finish(i)
    /\ UNCHANGED <<booted, store, answer, source, repo, remote, history, nextSha,
                   nTriggers, foundClear, started>>

\* part_004:221-222
HkAdd(i) ==
    /\ pc[i] = "hkAdd" /\ OthersQuiet(i)
    /\ \E ok \in Outcomes :
         /\ Fault(ok)
         /\ IF ok
            THEN /\ pc' = [pc EXCEPT ![i] = "hkCommit"]
                 /\ repo' = [repo EXCEPT !.index = repo.wt]
                 /\ UNCHANGED <<cyc, backupInProgress>>
            ELSE /\ Finish(i)
                 /\ UNCHANGED repo
    /\ UNCHANGED <<booted, store, answer, source, remote, history, nextSha,
                   nTriggers, foundClear, started>>

\* part_004:222-223
HkCommit(i) ==
    /\ pc[i] = "hkCommit" /\ OthersQuiet(i)
    /\ \E ok \in Outcomes :
         /\ Fault(ok)
         /\ IF ok
            THEN /\ pc' = [pc EXCEPT ![i] = "hkPush"]
                 /\ repo' = Commit(repo, "meta", nextSha)
                 /\ nextSha' = nextSha + 1
                 /\ cyc' = [cyc EXCEPT ![i] = Committed(@, Meta, nextSha, "meta")]
                 /\ UNCHANGED backupInProgress
            ELSE /\ Finish(i)
                 /\ UNCHANGED <<repo, nextSha>>
    /\ UNCHANGED <<booted, store, answer, source, remote, history,
                   nTriggers, foundClear, started>>

\* part_004:223-228
HkPush(i) ==
    /\ pc[i] = "hkPush" /\ OthersQuiet(i)
    /\ \E ok \in Outcomes :
         /\ Fault(ok)
         /\ remote' = IF ok THEN Pushed(repo) ELSE remote
    /\ Finish(i)
    /\ UNCHANGED <<booted, store, answer, source, repo, history, nextSha,
                   nTriggers, foundClear, started>>

\* ------------------------------------------------------------ environment
\* Another program changes the content of a mapping's sourceDir.  The content
\* is read by rsync only (part_002:120), so an edit made at any earlier moment
\* is the same as one made just before rsync reads the directory: the model
\* lets the edit happen there, once, and notes it among the cycle's operations.
SourceEdit(m) ==
    /\ \E i \in Invocations :
         /\ pc[i] = "loop" /\ cyc[i].k <= Len(cyc[i].mappings)
         /\ cyc[i].mappings[cyc[i].k].id = m
         /\ ~cyc[i].mappings[cyc[i].k].badPath
         /\ <<"edit", m>> \notin {cyc[i].ops[n] : n \in DOMAIN cyc[i].ops}
         /\ cyc' = [cyc EXCEPT ![i] = Op(@, "edit", m)]
    /\ \E v \in Versions \ {source[m]} : source' = [source EXCEPT ![m] = v]
    /\ UNCHANGED <<booted, backupInProgress, pc, store, answer, repo, remote,
                   history, nextSha, nTriggers, foundClear, started, faults>>

\* ------------------------------------------------------ the read routes
\* Mutant: the handler reports that nothing runs.
ReportRunning_Never(guard) == FALSE

\* part_004:251,322  backupInProgress, as the status payload and
\* GET /backup/running report it.
ReportRunning(guard) == guard

\* part_004:246-254  GET /status: the payload's backupInProgress field (the
\* other fields are constants of the process).
GetStatus ==
    /\ booted /\ Quiescent
    /\ answer' = [op |-> "status",
                  backupInProgress |-> ReportRunning(backupInProgress)]
    /\ UNCHANGED <<booted, backupInProgress, pc, cyc, store, source, repo, remote,
                   history, nextSha, nTriggers, foundClear, started, faults>>

\* part_004:321-323  GET /backup/running
GetRunning ==
    /\ booted /\ Quiescent
    /\ answer' = [op |-> "running", running |-> ReportRunning(backupInProgress)]
    /\ UNCHANGED <<booted, backupInProgress, pc, cyc, store, source, repo, remote,
                   history, nextSha, nTriggers, foundClear, started, faults>>

\* res.json(...) has been called and the handler returns.
Respond ==
    /\ answer.op \in {"status", "running"}
    /\ answer' = NoAnswer
    /\ UNCHANGED <<booted, backupInProgress, pc, cyc, store, source, repo, remote,
                   history, nextSha, nTriggers, foundClear, started, faults>>

Step(i) ==
    \/ CloneDone(i) \/ Checkout(i) \/ CheckoutLocal(i) \/ AddConfig(i)
    \/ Select(i) \/ Loop(i) \/ Status(i) \/ Add(i) \/ CopilotLog(i)
    \/ FallbackCommit(i) \/ Push(i) \/ Log(i)
    \/ Housekeeping(i) \/ HkStatus(i) \/ HkAdd(i) \/ HkCommit(i) \/ HkPush(i)
    \/ Collect(i)

Next ==
    \/ InitialBackup
    \/ CronTick
    \/ PostBackup
    \/ GetStatus
    \/ GetRunning
    \/ Respond
    \/ \E i \in Invocations : Step(i)
    \/ \E m \in MappingIds : SourceEdit(m)

Spec == Init /\ [][Next]_vars


\* ============================================================== properties
\* The entries a result list may hold (part_004:113-129).
IsSuccess(r) == "commitSha" \in DOMAIN r
IsNoChange(r) == "noChanges" \in DOMAIN r
IsError(r) == "error" \in DOMAIN r

\* The ids of a list of mappings, in order.
Ids(ms) == [n \in 1..Len(ms) |-> ms[n].id]
\* The mappings on which a cycle performed operation `name`, in order.
Did(c, name) == LET hits == SelectSeq(c.ops, LAMBDA o : o[1] = name)
                IN  [n \in 1..Len(hits) |-> hits[n][2]]
Range(f) == {f[x] : x \in DOMAIN f}
\* The history entries a cycle appended.
HistoryOf(c) == SelectSeq(history, LAMBDA e : e.timestamp = c.no)
StoreEnabled(id) == \E n \in DOMAIN store : store[n].id = id /\ store[n].enabled
RunningSet == {i \in Invocations : Running(pc[i])}

\* C1: at most one invocation of runFullBackup is between setting the guard
\* and clearing it, under every interleaving of the start trigger, cron ticks
\* and POST /backup requests.
C1_MutualExclusion == Cardinality(RunningSet) <= 1

\* C1 witness: a trigger arrived while a cycle was running and was rejected.
C1_Witness ==
    \E i, j \in Invocations :
        /\ Running(pc[i]) /\ pc[j] = "rejected" /\ cyc[j].kind = "cron"

\* C2: every started cycle leaves the guard false on every exit path, the
\* guard is set only while some invocation is running, and, as long as every
\* external call returns or throws, a running invocation always has a next
\* step: the system returns to idle.
C2_GuardCleared ==
    /\ \A i \in Invocations : pc[i] \in {"returned", "threw"} => ~backupInProgress
    /\ backupInProgress => RunningSet # {}
    /\ (backupInProgress /\ \A i \in Invocations : pc[i] # "copilotHung") =>
         ENABLED (Respond \/ \E j \in Invocations : Step(j))

\* C2 witness: a cycle ended by the requested-mapping-not-found error after a
\* successful prepare, and the guard is clear.
C2_Witness ==
    \E i \in Invocations :
        /\ pc[i] = "threw" /\ cyc[i].exit = "notfound"
        /\ Did(cyc[i], "clone") # <<>> /\ ~backupInProgress

\* C3: a trigger that finds the guard set is rejected and never run later:
\* the cycles ever started are exactly the triggers that found the guard
\* clear, and a rejected invocation has done nothing.
C3_NoDeferredStart ==
    /\ started = foundClear
    /\ \A i \in Invocations : pc[i] = "rejected" => cyc[i].ops = <<>>
    /\ Cardinality(RunningSet) <= started

\* C3 witness: one trigger was rejected, the running cycle has since ended,
\* and nothing runs.
C3_Witness ==
    /\ nTriggers = 2 /\ started = 1 /\ foundClear = 1
    /\ \A i \in Invocations : pc[i] = "idle"

\* The mappings for which runBackupForMapping threw in a cycle.
Threw(c) == Range(Did(c, "threw"))

\* C4: when runBackupForMapping throws for a mapping, the cycle does not
\* throw; every selected mapping is attempted, and the returned list has an
\* error entry for the failed mapping and an entry for every selected mapping.
C4_FailureIsolation ==
    \A i \in Invocations :
        LET c == cyc[i] IN
        Threw(c) # {} =>
            /\ pc[i] # "threw"
            /\ pc[i] = "returned" =>
                 /\ Did(c, "call") = Ids(c.mappings)
                 /\ \A m \in Threw(c) :
                      \E n \in DOMAIN c.results :
                          c.results[n].mappingId = m /\ IsError(c.results[n])
                 /\ \A m \in Range(Ids(c.mappings)) :
                      \E n \in DOMAIN c.results : c.results[n].mappingId = m

\* C4 witness: the first of two selected mappings failed in rsync, the second
\* was attempted afterwards, and the cycle returned.
C4_Witness ==
    \E i \in Invocations :
        /\ pc[i] = "returned" /\ Len(cyc[i].mappings) = 2
        /\ cyc[i].results[1].mappingId = cyc[i].mappings[1].id
        /\ IsError(cyc[i].results[1]) /\ cyc[i].results[1].error = "rsync"
        /\ Did(cyc[i], "rsync") = Ids(cyc[i].mappings)

ExactlyOneKind(r) ==
    Cardinality({k \in {"success", "noChanges", "error"} :
                    \/ k = "success" /\ IsSuccess(r)
                    \/ k = "noChanges" /\ IsNoChange(r)
                    \/ k = "error" /\ IsError(r)}) = 1

\* C5: a returned result list has exactly one entry per selected mapping, in
\* selection order, each exactly one of success, no-change and error; while
\* the loop runs, the list holds one entry per mapping already handled.
C5_OneEntryPerMapping ==
    \A i \in Invocations :
        LET c == cyc[i] IN
        /\ pc[i] = "returned" => Len(c.results) = Len(c.mappings)
        /\ pc[i] = "loop" => Len(c.results) = c.k - 1
        /\ Len(c.results) <= Len(c.mappings)
        /\ \A n \in DOMAIN c.results :
             /\ c.results[n].mappingId = c.mappings[n].id
             /\ ExactlyOneKind(c.results[n])

\* C5 witness: a returned list of two entries, the first an error caused by
\* a failed history append.
C5_Witness ==
    \E i \in Invocations :
        /\ pc[i] = "returned" /\ Len(cyc[i].results) = 2
        /\ IsError(cyc[i].results[1]) /\ cyc[i].results[1].error = "history"
        /\ ~IsError(cyc[i].results[2])

\* C6: when prepareRepo fails the cycle aborts: the promise rejects, the guard
\* is clear, no mapping was synced, no history entry appended and no result
\* recorded.
C6_PrepareFailureAborts ==
    \A i \in Invocations :
        LET c == cyc[i] IN
        Did(c, "prepareFailed") # <<>> =>
            /\ pc[i] = "threw"
            /\ c.exit \in {"clone", "checkout", "gitconfig"}
            /\ ~backupInProgress
            /\ Did(c, "call") = <<>> /\ Did(c, "rsync") = <<>>
            /\ HistoryOf(c) = <<>>
            /\ c.results = <<>>

\* C6 witness: the checkout failed, then the local branch creation failed.
C6_Witness ==
    \E i \in Invocations :
        /\ pc[i] = "threw" /\ cyc[i].exit = "checkout"
        /\ Did(cyc[i], "clone") # <<>>

\* C7 as stated: the only errors that leave runFullBackup are repository
\* clone/checkout failures.  (Read failures of the settings and mapping
\* stores are granted to the claim here: the stores are not in the sources.)
C7_OnlyPrepareErrorsPropagate ==
    \A i \in Invocations :
        (pc[i] = "threw" /\ cyc[i].exit \notin {"settings", "store"})
            => cyc[i].exit \in {"clone", "checkout", "gitconfig"}

\* C7 amended: the errors that leave runFullBackup are a settings or
\* mapping-store read failure, a prepareRepo failure and the error for a
\* requested mapping that is absent or disabled, all raised before any
\* mapping is attempted; once the loop has begun every failure is captured
\* and runFullBackup returns normally.
C7_ErrorsThatPropagate ==
    \A i \in Invocations :
        LET c == cyc[i] IN
        /\ pc[i] = "threw" =>
             /\ c.exit \in {"settings", "clone", "checkout", "gitconfig",
                            "store", "notfound"}
             /\ Did(c, "call") = <<>> /\ c.results = <<>>
        /\ Did(c, "call") # <<>> => pc[i] # "threw"

\* C7 witness: a request for a disabled mapping made runFullBackup throw after
\* a successful prepare.
C7_Witness ==
    \E i \in Invocations :
        /\ pc[i] = "threw" /\ cyc[i].exit = "notfound"
        /\ cyc[i].mappingId \in MappingIds /\ ~StoreEnabled(cyc[i].mappingId)
        /\ repo.exists

\* Invocation i has passed the selection of mappings (part_004:101-106).
PastSelection(i) ==
    \/ pc[i] \in {"loop", "status", "add", "copilotLog", "copilotHung",
                  "fallbackCommit",
                  "push", "log", "housekeeping", "hkStatus", "hkAdd",
                  "hkCommit", "hkPush", "returned"}
    \/ pc[i] = "threw" /\ cyc[i].exit = "notfound"

\* C8: in a cycle started with a mapping id, only that mapping is ever
\* synced; if it is enabled in the store the returned list has exactly one
\* entry, for it; if it is absent or disabled the cycle throws at the
\* selection and no mapping is synced.
C8_RequestedMappingOnly ==
    \A i \in Invocations :
        LET c == cyc[i] IN
        c.mappingId # NoId =>
            /\ Range(Did(c, "call")) \subseteq {c.mappingId}
            /\ pc[i] = "returned" =>
                 /\ StoreEnabled(c.mappingId)
                 /\ Did(c, "call") = <<c.mappingId>>
                 /\ Len(c.results) = 1
                 /\ c.results[1].mappingId = c.mappingId
            /\ (PastSelection(i) /\ StoreEnabled(c.mappingId)) =>
                 Ids(c.mappings) = <<c.mappingId>>
            /\ (PastSelection(i) /\ ~StoreEnabled(c.mappingId)) =>
                 /\ pc[i] = "threw" /\ c.exit = "notfound"
                 /\ Did(c, "call") = <<>>

\* C8 witness: with both mappings enabled, a cycle requested for the second
\* one returned a single entry.
C8_Witness ==
    \E i \in Invocations :
        /\ pc[i] = "returned" /\ cyc[i].mappingId = 2
        /\ \A m \in MappingIds : StoreEnabled(m)
        /\ Len(cyc[i].results) = 1 /\ Did(cyc[i], "rsync") = <<2>>

EnabledCount == Cardinality({n \in DOMAIN store : store[n].enabled})

\* C9: a disabled mapping is never passed to runBackupForMapping and never
\* appears in a result list or in history; a full cycle returns exactly as
\* many entries as there are enabled mappings.
C9_DisabledNeverSynced ==
    /\ \A n \in DOMAIN history : StoreEnabled(history[n].mappingId)
    /\ \A i \in Invocations :
        LET c == cyc[i] IN
        /\ \A m \in Range(Did(c, "call")) : StoreEnabled(m)
        /\ \A n \in DOMAIN c.results : StoreEnabled(c.results[n].mappingId)
        /\ (pc[i] = "returned" /\ c.mappingId = NoId) =>
             Len(c.results) = EnabledCount

\* C9 witness: a full cycle over one enabled and one disabled mapping
\* returned one entry.
C9_Witness ==
    \E i \in Invocations :
        /\ pc[i] = "returned" /\ cyc[i].mappingId = NoId
        /\ EnabledCount = 1 /\ ~store[1].enabled
        /\ Len(cyc[i].results) = 1

\* C10: when the status query after a mapping's sync reports no differing
\* file, nothing is staged, committed or pushed for that mapping, its result
\* is a noChanges entry, and no history entry is appended for it.
C10_NoChangeIsNoOp ==
    \A i \in Invocations :
        LET c == cyc[i] IN
        \A m \in Range(Did(c, "clean")) :
            /\ m \notin Range(Did(c, "add")) \cup Range(Did(c, "copilot"))
                        \cup Range(Did(c, "commit")) \cup Range(Did(c, "push"))
                        \cup Range(Did(c, "threw"))
            /\ \E n \in DOMAIN c.results :
                 /\ c.results[n].mappingId = m
                 /\ IsNoChange(c.results[n]) /\ ~IsError(c.results[n])
            /\ \A n \in DOMAIN history :
                 ~(history[n].timestamp = c.no /\ history[n].mappingId = m)

\* C10 witness: a cycle returned a success for its first mapping and a
\* noChanges entry for its second, and appended one history entry.
C10_Witness ==
    \E i \in Invocations :
        /\ pc[i] = "returned" /\ Len(cyc[i].results) = 2
        /\ IsSuccess(cyc[i].results[1]) /\ IsNoChange(cyc[i].results[2])
        /\ Len(HistoryOf(cyc[i])) = 1

\* The mappings that reported success in the cycle with serial number `no`:
\* those for which that cycle appended a history entry (part_004:122).
SucceededIn(no) ==
    {history[n].mappingId : n \in {x \in DOMAIN history : history[x].timestamp = no}}

\* C11 (idempotence), for the first two cycles of a process: when the cycle at
\* process start is followed by a full cycle, no source directory is edited
\* in between and no external call fails, every mapping that reported
\* success in the first cycle reports no-change in the second.
C11_Idempotence ==
    \A i \in Invocations :
        LET c == cyc[i] IN
        (c.no = 2 /\ c.mappingId = NoId /\ faults = 0 /\ Did(c, "edit") = <<>>) =>
            \A n \in DOMAIN c.results :
                c.results[n].mappingId \in SucceededIn(1) => IsNoChange(c.results[n])

\* The operations runBackupForMapping performs after the path validation.
SyncOps == {"rsync", "status", "clean", "add", "copilot", "commit", "push",
            "outcome", "history"}

\* C12: for a mapping whose sourceDir or target directory holds one of the
\* characters " ' ; | runBackupForMapping throws before the file sync and
\* before any version-control command: none of these operations is ever
\* performed for it, its result is the path error, and the call leaves the
\* working copy, the remote and the source unchanged.
C12_InvalidPathRejectedFirst ==
    /\ [](\A i \in Invocations :
            LET c == cyc[i] IN
            \A n \in DOMAIN c.mappings :
                c.mappings[n].badPath =>
                    /\ \A o \in SyncOps : c.mappings[n].id \notin Range(Did(c, o))
                    /\ n < c.k => /\ IsError(c.results[n])
                                  /\ c.results[n].error = "path"
                                  /\ c.mappings[n].id \in Threw(c))
    /\ [][\A i \in Invocations :
            (/\ pc[i] = "loop" /\ cyc[i].k <= Len(cyc[i].mappings)
             /\ Current(cyc[i]).badPath /\ cyc'[i] # cyc[i])
                => /\ repo' = repo /\ remote' = remote /\ source' = source
                   /\ pc'[i] = "loop" /\ cyc'[i].k = cyc[i].k + 1]_vars

\* C12 witness: a cycle returned the path error for its first mapping, which
\* was called but never synced, and synced its second mapping.
C12_Witness ==
    \E i \in Invocations :
        /\ pc[i] = "returned" /\ Len(cyc[i].results) = 2
        /\ IsError(cyc[i].results[1]) /\ cyc[i].results[1].error = "path"
        /\ Did(cyc[i], "call") = <<1, 2>> /\ Did(cyc[i], "rsync") = <<2>>

\* The result entry of mapping m in cycle c, in a set (empty while m has none).
ResultsFor(c, m) ==
    {c.results[n] : n \in {x \in DOMAIN c.results : c.results[x].mappingId = m}}

\* C13: when the commit-message tool cannot be started or exits non-zero, the
\* staged changes are committed with the fallback message, that message is
\* the one reported, and the mapping's result is a success unless some other
\* external call fails as well; the cycle itself never fails for it.
C13_FallbackCommit ==
    \A i \in Invocations :
        LET c == cyc[i] IN
        \A m \in Range(Did(c, "copilotFailed")) :
            /\ pc[i] # "threw"
            /\ faults = 1 => m \notin Threw(c)
            /\ \A r \in ResultsFor(c, m) :
                 /\ IsSuccess(r) \/ IsError(r)
                 /\ IsSuccess(r) => r.commitMessage = "fallback"
                 /\ IsError(r) => faults > 1
            /\ (pc[i] \in {"push", "log"} /\ Current(c).id = m) =>
                 /\ c.commitMessage = "fallback" /\ repo.msg = "fallback"
                 /\ repo.head = repo.wt /\ repo.index = repo.wt

\* C13 witness: a cycle returned a success carrying the fallback message for
\* a mapping whose commit-message tool failed.
C13_Witness ==
    \E i \in Invocations :
        /\ pc[i] = "returned"
        /\ \E m \in Range(Did(cyc[i], "copilotFailed")) :
             \E r \in ResultsFor(cyc[i], m) :
                 IsSuccess(r) /\ r.commitMessage = "fallback"

\* C14: the invocation of the commit-message generator is bounded by a
\* timeout: an invocation of runFullBackup that waits for a generator which
\* never finishes on its own is still able to go on (to the fallback commit,
\* the end of the cycle and the clearing of the guard).
C14_GeneratorTimeout ==
    \A i \in Invocations : pc[i] = "copilotHung" => ENABLED Step(i)

\* ============================================================ history store
\* The queries of history.js and the runs that exercise the store on its own:
\* entries are appended one after another, with queries in between.

\* An optional argument: <<>> when it is undefined, <<v>> when it is v.
Limits == {<<>>} \cup {<<n>> : n \in 0..MaxLimit}
\* if (limit): undefined and 0 are falsy.
Truthy(limit) == limit # <<>> /\ limit[1] # 0

\* entries.slice(0, n) for n >= 0
Slice(entries, n) == SubSeq(entries, 1, IF n < Len(entries) THEN n ELSE Len(entries))

\* IMPLEMENTATION_SUMMARY.md:215-224  getHistory({ mappingId, limit })
getHistory(entries, mappingId, limit) ==
    LET filtered == IF mappingId # NoId
                    THEN SelectSeq(entries, LAMBDA e : e.mappingId = mappingId)
                    ELSE entries
    IN  IF Truthy(limit) THEN Slice(filtered, limit[1]) ELSE filtered

\* IMPLEMENTATION_SUMMARY.md:226-229  getLatestForMapping(mappingId)
getLatestForMapping(entries, mappingId) ==
    LET hits == {n \in DOMAIN entries : entries[n].mappingId = mappingId}
    IN  IF hits = {} THEN Null
        ELSE entries[CHOOSE n \in hits : \A x \in hits : n <= x]

\* The store of the history runs: both mappings enabled, in subdirectories.
HistoryStore == StoreOf([m \in MappingIds |-> <<TRUE, FALSE, FALSE>>])

HistoryInit ==
    /\ booted = FALSE
    /\ backupInProgress = FALSE
    /\ pc = [i \in Invocations |-> "idle"]
    /\ cyc = [i \in Invocations |-> NoCycle]
    /\ store = HistoryStore
    /\ source = [m \in MappingIds |-> 0]
    /\ repo = NoRepo
    /\ remote = [content |-> [p \in Paths |-> 0], sha |-> 0, msg |-> "old",
                 branch |-> TRUE]
    /\ history = <<>>
    /\ nextSha = 1
    /\ nTriggers = 0
    /\ foundClear = 0
    /\ started = 0
    /\ faults = 0
    /\ answer = NoAnswer

\* The entry of the n-th successful backup: the mappings take turns unevenly.
NthEntry(n) ==
    LET m == IF n % 3 = 0 THEN 1 ELSE 2
    IN  Entry([NoCycle EXCEPT !.no = n, !.mappings = <<store[m]>>, !.k = 1,
                              !.commitMessage = "ai", !.filesChanged = 1], n)

\* part_004:122  addHistoryEntry(entry)
AppendEntry ==
    /\ nextSha <= MaxAppends
    /\ history' = addHistoryEntry(history, NthEntry(nextSha))
    /\ nextSha' = nextSha + 1
    /\ answer' = NoAnswer
    /\ UNCHANGED <<booted, backupInProgress, pc, cyc, store, source, repo,
                   remote, nTriggers, foundClear, started, faults>>

\* part_004:304-308  GET /history: getHistory({ mappingId, limit })
GetHistory ==
    /\ \E id \in MappingIds \cup {NoId}, limit \in Limits :
         answer' = [op |-> "getHistory", mappingId |-> id, limit |-> limit,
                    result |-> getHistory(history, id, limit)]
    /\ UNCHANGED <<booted, backupInProgress, pc, cyc, store, source, repo,
                   remote, history, nextSha, nTriggers, foundClear, started,
                   faults>>

\* part_004:258  getLatestForMapping(m.id)
GetLatest ==
    /\ \E id \in MappingIds :
         answer' = [op |-> "getLatestForMapping", mappingId |-> id,
                    result |-> getLatestForMapping(history, id)]
    /\ UNCHANGED <<booted, backupInProgress, pc, cyc, store, source, repo,
                   remote, history, nextSha, nTriggers, foundClear, started,
                   faults>>

HistoryNext == AppendEntry \/ GetHistory \/ GetLatest

HistorySpec == HistoryInit /\ [][HistoryNext]_vars

\* C15: the stored history never holds more than 500 entries and is ordered
\* newest first; an append puts the new entry at index 0 in front of the
\* earlier entries in their order, and when that would exceed 500 entries it
\* is the oldest, last entry that is dropped.
C15_HistoryRetention ==
    /\ [](/\ Len(history) <= MAX_ENTRIES
          /\ \A n \in 1..(Len(history) - 1) :
                history[n].timestamp > history[n + 1].timestamp)
    /\ [][nextSha' # nextSha =>
            /\ history'[1] = NthEntry(nextSha)
            /\ Len(history') = (IF Len(history) < MAX_ENTRIES
                                THEN Len(history) + 1 ELSE MAX_ENTRIES)
            /\ \A n \in 2..Len(history') : history'[n] = history[n - 1]]_vars

\* C15 witness: the store is full and its oldest entries have been evicted.
C15_Witness ==
    /\ Len(history) = MAX_ENTRIES
    /\ history[1].timestamp = MAX_ENTRIES + 2
    /\ history[MAX_ENTRIES].timestamp = 3

\* The entries of the stored history that a query for mappingId matches.
Matching(mappingId) ==
    IF mappingId = NoId THEN history
    ELSE SelectSeq(history, LAMBDA e : e.mappingId = mappingId)

\* C16: getHistory({mappingId, limit: N}) returns the first min(N, k) of the
\* k matching entries, newest first (all of them when no limit is given), and
\* getLatestForMapping(id) returns the first matching entry, or null.
C16_HistoryQueries ==
    /\ answer.op = "getHistory" =>
         LET all == Matching(answer.mappingId)
             k == Len(all)
         IN  answer.result =
                IF answer.limit = <<>> THEN all
                ELSE SubSeq(all, 1, IF answer.limit[1] < k
                                    THEN answer.limit[1] ELSE k)
    /\ answer.op = "getLatestForMapping" =>
         LET all == Matching(answer.mappingId)
         IN  answer.result = IF Len(all) = 0 THEN Null ELSE all[1]

\* The operations of cycle c that belong to the sync of one mapping, in the
\* order in which they were performed.
MappingOps(c) ==
    SelectSeq(c.ops, LAMBDA o : o[1] \in SyncOps \cup {"call", "threw", "copilotFailed"})

\* The place of mapping m in the list of selected mappings.
PosOf(c, m) == CHOOSE n \in DOMAIN c.mappings : c.mappings[n].id = m

\* C17: within one cycle the mappings are processed strictly one after
\* another, in the order of the selection: every operation of a mapping's
\* sync comes after all operations of the mappings before it, a mapping's
\* sync begins only when every earlier mapping has its result, no operation
\* is performed for a mapping whose turn has not come, and at most one push is
\* in flight at any instant.
C17_SequentialMappings ==
    /\ Cardinality({i \in Invocations : pc[i] \in {"push", "hkPush"}}) <= 1
    /\ \A i \in Invocations :
        LET c == cyc[i]
            ops == MappingOps(c)
        IN  /\ \A a, b \in DOMAIN ops :
                 a < b => PosOf(c, ops[a][2]) <= PosOf(c, ops[b][2])
            /\ \A a \in DOMAIN ops : PosOf(c, ops[a][2]) <= c.k
            /\ Did(c, "call") = SubSeq(Ids(c.mappings), 1, Len(Did(c, "call")))
            /\ Running(pc[i]) /\ c.mappings # <<>> /\ pc[i] # "select" =>
                 /\ Len(c.results) = c.k - 1
                 /\ Len(Did(c, "call")) \in {Len(c.results), Len(c.results) + 1}
                 /\ Len(Did(c, "call")) = Len(c.results) + 1 <=>
                      pc[i] \in {"status", "add", "copilotLog", "copilotHung",
                                 "fallbackCommit", "push", "log"}

\* C17 witness: the second mapping's push is in flight and the first mapping
\* already has its result, a success.
C17_Witness ==
    \E i \in Invocations :
        /\ pc[i] = "push" /\ cyc[i].k = 2
        /\ Len(cyc[i].results) = 1 /\ IsSuccess(cyc[i].results[1])
        /\ Did(cyc[i], "push") = <<1>>

\* git clone: the working copy a clone of the remote branch yields.
FreshClone == [exists |-> TRUE, wt |-> remote.content, index |-> remote.content,
               head |-> remote.content, sha |-> remote.sha, msg |-> remote.msg]

C19_OneDirectional ==
    [][/\ source' # source =>
            /\ \E i \in Invocations, m \in MappingIds :
                 cyc' = [cyc EXCEPT ![i] = Op(@, "edit", m)]
            /\ pc' = pc /\ repo' = repo /\ remote' = remote
       /\ \A p \in MappingIds :
            repo'.wt[p] \in {repo.wt[p], source[p], remote.content[p], 0}
       /\ remote'.content # remote.content => remote'.content = repo.head
      ]_vars

\* C19 witness: a mapping whose source had been edited was synced and pushed,
\* and the source still has the edited content.
C19_Witness ==
    \E i \in Invocations, m \in MappingIds :
        /\ pc[i] = "returned" /\ \E r \in ResultsFor(cyc[i], m) : IsSuccess(r)
        /\ <<"edit", m>> \in Range(cyc[i].ops)
        /\ source[m] = 1 /\ remote.content[m] = 1 /\ repo.wt[m] = 1

EntersCycle == \E i \in Invocations : pc[i] = "idle" /\ pc'[i] = "clone"
LeavesCycle == \E i \in Invocations : Running(pc[i]) /\ pc'[i] \in {"returned", "threw"}

\* C21: the working copy and the remote branch change only while
\* backupInProgress is true (the entering step sets the guard and only then
\* removes the working copy), and backupInProgress changes only in a step in
\* which runFullBackup enters or leaves a cycle: no route handler changes it.
C21_GuardBeforeMutation ==
    [][/\ (repo' # repo \/ remote' # remote) =>
            \/ backupInProgress
            \/ backupInProgress' /\ EntersCycle
       /\ backupInProgress' # backupInProgress => EntersCycle \/ LeavesCycle
       /\ answer' # answer => UNCHANGED <<backupInProgress, repo, remote>>]_vars

\* C21 witness: the status route is answering while a cycle that has already
\* pushed a commit is running.
C21_Witness ==
    /\ answer.op = "status" /\ backupInProgress
    /\ repo.exists /\ remote.sha > 0
    /\ \E i \in Invocations : Did(cyc[i], "push") # <<>>

\* C22: a POST /backup that arrives while a cycle is running is answered 409
\* and performs no operation; one that arrives while idle enters a cycle, and
\* when the cycle returns, the response holds one result per selected mapping;
\* GET /backup/running and the status payload report true exactly while an
\* invocation is running.
C22_OnDemandBackup ==
    /\ [](/\ \A i \in Invocations :
               /\ (cyc[i].kind = "post" /\ pc[i] = "rejected") =>
                      cyc[i].exit = "409" /\ cyc[i].ops = <<>>
               /\ (cyc[i].kind = "post" /\ pc[i] = "returned") =>
                      /\ cyc[i].exit = "normal"
                      /\ Ids(cyc[i].mappings) =
                           [n \in DOMAIN cyc[i].results |-> cyc[i].results[n].mappingId]
          /\ answer.op = "running" => answer.running = (RunningSet # {})
          /\ answer.op = "status" => answer.backupInProgress = (RunningSet # {}))
    /\ [][\A i \in Invocations :
             (pc[i] = "idle" /\ cyc'[i].kind = "post") =>
                 IF RunningSet # {}
                 THEN /\ pc'[i] = "rejected" /\ cyc'[i].exit = "409"
                      /\ UNCHANGED <<repo, remote, history, started>>
                 ELSE /\ pc'[i] \in {"clone", "threw"}
                      /\ started' = started + 1]_vars

\* C22 witness: a POST /backup found the initial cycle past its first push
\* and was answered 409.
C22_Witness ==
    \E i, j \in Invocations :
        /\ Running(pc[i]) /\ cyc[i].kind = "init" /\ Did(cyc[i], "push") # <<>>
        /\ pc[j] = "rejected" /\ cyc[j].kind = "post" /\ cyc[j].exit = "409"

\* ------------------------------------------------- the repository URL runs
\* GITHUB_TOKEN: unset (falsy), or one of two secrets.
NoToken == ""
Tokens == {"tokenA", "tokenB"}

\* The values of GIT_REPO_URL tried: the SSH shorthand and the https and http
\* forms for two hosts, with plain and dotted repository names, with and
\* without ".git" and credentials, and some strings of no known form.
Owners == {<<"o">>}
RepoNames == {<<"r">>, <<"r", ".", "js">>}
Suffixes == {<<>>, DotGit}
Hosts == {"github.com", "example.com"}
UserInfos == {<<>>, <<"user", "@">>, <<"user", ":", "pw", "@">>}
SshUrls(host) ==
    {<<"git", "@", host, ":">> \o o \o <<"/">> \o r \o x :
        o \in Owners, r \in RepoNames, x \in Suffixes}
WebUrls(scheme, host) ==
    {<<scheme, "//">> \o u \o <<host, "/">> \o o \o <<"/">> \o r \o x :
        u \in UserInfos, o \in Owners, r \in RepoNames, x \in Suffixes}
OddUrls == {<<>>, <<"o", "/", "r">>, <<"https:", "//", "github.com">>,
            <<"https:", "//", "github.com", "/", "o">>,
            <<"https:", "//">>, <<"https:", "//", "user", "@">>}
RepoUrls ==
    UNION {SshUrls(h) \cup WebUrls("https:", h) : h \in Hosts}
    \cup WebUrls("http:", "github.com") \cup OddUrls

\* An error thrown at module load: the process exits.
Thrown == [thrown |-> TRUE]

\* part_002:13-37  getGlobalConfig(): the repoUrl of the configuration.
getGlobalConfig(env) ==
    IF env.GIT_REPO_URL = <<>> THEN Thrown
    ELSE IF /\ StartsWith(env.GIT_REPO_URL, <<"https:", "//">>)
            /\ env.GITHUB_TOKEN # NoToken
    THEN LET url == ParseUrl(env.GIT_REPO_URL)
         IN  IF url = Null THEN Thrown
             ELSE [repoUrl |-> Serialize([url EXCEPT
                                  !.username = <<env.GITHUB_TOKEN>>,
                                  !.password = <<>>])]
    ELSE [repoUrl |-> env.GIT_REPO_URL]

\* Mutant: the status payload shows the configured URL as it is.
safeRepoUrl_Raw(repoUrl) == repoUrl

\* part_004:22-32  safeRepoUrl()
safeRepoUrl(repoUrl) ==
    LET url == ParseUrl(repoUrl)
    IN  IF url = Null THEN repoUrl
        ELSE Serialize([url EXCEPT !.username = <<>>, !.password = <<>>])

\* part_002:54 and part_004:317,337  the message of the error a failed clone
\* rejects with, which the 500 response and the log line carry: git names the
\* repository by its URL without the user information.
CloneErrorMessage(repoUrl) ==
    LET url == ParseUrl(repoUrl)
    IN  <<"fatal:", "unable", "to", "access">>
        \o (IF url = Null THEN repoUrl
            ELSE Serialize([url EXCEPT !.username = <<>>, !.password = <<>>]))

\* What a process started with environment env lets an observer see: the
\* start-up log line (part_002:33), the repoUrl of the status payload
\* (part_004:248), the message of a failed clone (part_004:317) and the commit
\* URL of a history entry (part_004:112).
Observed(env) ==
    LET cfg == getGlobalConfig(env)
    IN  IF cfg = Thrown THEN [startup |-> "threw"]
        ELSE [startup |-> IF /\ StartsWith(env.GIT_REPO_URL, <<"https:", "//">>)
                             /\ env.GITHUB_TOKEN # NoToken
                          THEN "Repository URL configured with authentication token"
                          ELSE "",
              repoUrl |-> safeRepoUrl(cfg.repoUrl),
              error |-> CloneErrorMessage(cfg.repoUrl),
              commitUrl |-> buildCommitUrl(env.GIT_REPO_URL, 1)]

UrlInit ==
    /\ booted = FALSE
    /\ backupInProgress = FALSE
    /\ pc = [i \in Invocations |-> "idle"]
    /\ cyc = [i \in Invocations |-> NoCycle]
    /\ store = HistoryStore
    /\ source = [m \in MappingIds |-> 0]
    /\ repo = NoRepo
    /\ remote = [content |-> [p \in Paths |-> 0], sha |-> 0, msg |-> "old",
                 branch |-> TRUE]
    /\ history = <<>>
    /\ nextSha = 1
    /\ nTriggers = 0
    /\ foundClear = 0
    /\ started = 0
    /\ faults = 0
    /\ answer = NoAnswer

\* The process is started with some GIT_REPO_URL and GITHUB_TOKEN and is
\* observed.
Observe ==
    /\ \E url \in RepoUrls, token \in Tokens \cup {NoToken} :
         LET env == [GIT_REPO_URL |-> url, GITHUB_TOKEN |-> token]
         IN  answer' = [op |-> "observed", env |-> env, out |-> Observed(env)]
    /\ UNCHANGED <<booted, backupInProgress, pc, cyc, store, source, repo,
                   remote, history, nextSha, nTriggers, foundClear, started,
                   faults>>

\* github.js:21  buildCommitUrl(repoUrl, sha)
BuildCommitUrl ==
    /\ \E url \in RepoUrls, sha \in 1..2 :
         answer' = [op |-> "buildCommitUrl", repoUrl |-> url, sha |-> sha,
                    result |-> buildCommitUrl(url, sha)]
    /\ UNCHANGED <<booted, backupInProgress, pc, cyc, store, source, repo,
                   remote, history, nextSha, nTriggers, foundClear, started,
                   faults>>

UrlNext == Observe \/ BuildCommitUrl

UrlSpec == UrlInit /\ [][UrlNext]_vars

\* The tokens of a string.
Words(s) == {s[n] : n \in DOMAIN s}

Recognized ==
    {[url |-> SshHead \o o \o <<"/">> \o r \o x, owner |-> o, name |-> r] :
        o \in Owners, r \in RepoNames, x \in Suffixes}
    \cup
    UNION {{[url |-> <<"https:", "//">> \o u \o <<"github.com", "/">>
                       \o o \o <<"/">> \o r \o x,
             owner |-> o, name |-> r] :
              o \in Owners, r \in RepoNames, x \in Suffixes} : u \in UserInfos}

\* C24: buildCommitUrl(repoUrl, sha) is
\* https://github.com/<owner>/<repo>/commit/<sha> for every URL of a recognized
\* form, with the owner and repository the URL names, and null for every
\* other URL.
C24_BuildCommitUrl ==
    answer.op = "buildCommitUrl" =>
        /\ \A rec \in Recognized :
              rec.url = answer.repoUrl =>
                  answer.result = CommitUrl(rec.owner, rec.name, answer.sha)
        /\ (\A rec \in Recognized : rec.url # answer.repoUrl) =>
              answer.result = Null

\* C24, the SSH shorthand alone: a URL git@github.com:owner/repo[.git] gives
\* the commit URL of that owner and repository.
C24_SshForm ==
    (answer.op = "buildCommitUrl" /\ StartsWith(answer.repoUrl, SshHead)) =>
        \A rec \in Recognized :
            rec.url = answer.repoUrl =>
                answer.result = CommitUrl(rec.owner, rec.name, answer.sha)

\* ------------------------------------------------- the mapping store runs
\* The mapping store (config.js) as the routes of part_004:264-289 use it.  A
\* stored mapping is [id, name, repoSubdir, enabled]; repoSubdir "" is the
\* root of the repository.
Subdirs == {"", "a", "b"}
IdPool == 1..(MaxMappings + 1)
\* The request bodies: a whole mapping for POST, some of its fields for PUT
\* (a body may also name an id).
PostBodies == [name : {"n"}, repoSubdir : Subdirs, enabled : BOOLEAN]
PutBodies == [repoSubdir : Subdirs] \cup [enabled : BOOLEAN]
             \cup [id : IdPool, repoSubdir : Subdirs]

\* Mutant: only non-empty subdirectories are compared.
Collides_NonEmptyOnly(mappings, id, subdir) ==
    subdir # "" /\ \E n \in DOMAIN mappings :
                      mappings[n].id # id /\ mappings[n].repoSubdir = subdir

\* config.js: a mapping other than `id` already has repoSubdir `subdir`.
Collides(mappings, id, subdir) ==
    \E n \in DOMAIN mappings :
        mappings[n].id # id /\ mappings[n].repoSubdir = subdir

\* config.js: addMapping(body) with the fresh identifier id: the new list of
\* mappings, or Thrown when the repoSubdir is taken.
addMapping(mappings, id, body) ==
    IF Collides(mappings, id, body.repoSubdir) THEN Thrown
    ELSE [mappings |-> Append(mappings, [id |-> id, name |-> body.name,
                                         repoSubdir |-> body.repoSubdir,
                                         enabled |-> body.enabled])]

\* The fields of a mapping after a partial update: the id is kept.
Updated(m, body) ==
    [f \in DOMAIN m |-> IF f \in DOMAIN body /\ f # "id" THEN body[f] ELSE m[f]]

\* config.js: updateMapping(id, body); Thrown when no mapping has the id or
\* the new repoSubdir is taken by another mapping.
updateMapping(mappings, id, body) ==
    IF \A n \in DOMAIN mappings : mappings[n].id # id THEN Thrown
    ELSE IF "repoSubdir" \in DOMAIN body /\ Collides(mappings, id, body.repoSubdir)
    THEN Thrown
    ELSE [mappings |-> [n \in DOMAIN mappings |->
                           IF mappings[n].id = id THEN Updated(mappings[n], body)
                           ELSE mappings[n]]]

\* config.js: deleteMapping(id)
deleteMapping(mappings, id) ==
    [mappings |-> SelectSeq(mappings, LAMBDA m : m.id # id)]

ConfigInit ==
    /\ booted = FALSE
    /\ backupInProgress = FALSE
    /\ pc = [i \in Invocations |-> "idle"]
    /\ cyc = [i \in Invocations |-> NoCycle]
    /\ store = <<>>
    /\ source = [m \in MappingIds |-> 0]
    /\ repo = NoRepo
    /\ remote = [content |-> [p \in Paths |-> 0], sha |-> 0, msg |-> "old",
                 branch |-> TRUE]
    /\ history = <<>>
    /\ nextSha = 1
    /\ nTriggers = 0
    /\ foundClear = 0
    /\ started = 0
    /\ faults = 0
    /\ answer = NoAnswer

\* The route answers with `code` after the store call returned `result`.
StoreRoute(op, id, result, ok) ==
    /\ store' = IF result = Thrown THEN store ELSE result.mappings
    /\ answer' = [op |-> op, id |-> id,
                  code |-> IF result = Thrown THEN 400 ELSE ok]
    /\ UNCHANGED <<booted, backupInProgress, pc, cyc, source, repo, remote,
                   history, nextSha, nTriggers, foundClear, started, faults>>

\* part_004:264-271  POST /mappings
PostMapping ==
    /\ Len(store) < MaxMappings
    /\ \E body \in PostBodies,
          id \in IdPool \ {store[n].id : n \in DOMAIN store} :
         StoreRoute("addMapping", id, addMapping(store, id, body), 201)

\* part_004:273-280  PUT /mappings/:id
PutMapping ==
    \E id \in IdPool, body \in PutBodies :
        StoreRoute("updateMapping", id, updateMapping(store, id, body), 200)

\* part_004:282-289  DELETE /mappings/:id
DeleteMapping ==
    \E id \in IdPool :
        StoreRoute("deleteMapping", id, deleteMapping(store, id), 200)

ConfigNext == PostMapping \/ PutMapping \/ DeleteMapping

ConfigSpec == ConfigInit /\ [][ConfigNext]_vars

\* C25: no two mappings of the store have the same repoSubdir, two empty
\* strings included; an add or update answered with an error leaves the store
\* as it was; and an update keeps every mapping's id.
C25_UniqueSubdir ==
    /\ [](\A a, b \in DOMAIN store :
             store[a].repoSubdir = store[b].repoSubdir => a = b)
    /\ [][/\ answer'.code = 400 => store' = store
          /\ answer'.op = "updateMapping" =>
                /\ Len(store') = Len(store)
                /\ \A n \in DOMAIN store : store'[n].id = store[n].id]_vars

\* C25 witness: with a mapping at the root of the repository in the store, an
\* update that would move a second mapping to the root was refused.
C25_Witness ==
    /\ answer.op = "updateMapping" /\ answer.code = 400
    /\ \E a, b \in DOMAIN store :
          /\ store[a].repoSubdir = "" /\ store[b].repoSubdir # ""
          /\ store[b].id = answer.id

\* The commits made during the sync of mapping m in cycle c, the places of
\* m's results in the result list, and the history entries the cycle appended
\* for m.
CommitsOf(c, m) == SelectSeq(c.ops, LAMBDA o : o[1] = "committed" /\ o[2] = m)
ResultPlaces(c, m) == {x \in DOMAIN c.results : c.results[x].mappingId = m}
HistoryFor(c, m) ==
    SelectSeq(history, LAMBDA e : e.timestamp = c.no /\ e.mappingId = m)
HasOp(c, name, m) == \E n \in DOMAIN c.ops : c.ops[n][1] = name /\ c.ops[n][2] = m

\* Mapping m of cycle c has exactly one commit, one result, a success that
\* reports at least one changed file and that commit's identifier and message,
\* and one history entry, equal to the result, with the mapping's id and name
\* and the commit URL derived from GIT_REPO_URL.
OneCommitOneEntry(c, m) ==
    LET commits == CommitsOf(c, m) IN
    /\ Len(commits) = 1
    /\ Cardinality(ResultPlaces(c, m)) = 1
    /\ \A x \in ResultPlaces(c, m) :
          LET r == c.results[x] IN
          /\ IsSuccess(r)
          /\ r.mappingName = c.mappings[PosOf(c, m)].name
          /\ r.filesChanged >= 1
          /\ r.commitSha = commits[1][3]
          /\ r.commitMessage = commits[1][4]
          /\ r.commitUrl = CommitUrl(<<"o">>, <<"r">>, r.commitSha)
          /\ HistoryFor(c, m) = <<r>>

\* Mapping m's turn in cycle c is over after its sync found changes and
\* staged, committed and pushed them.
PushedAndDone(c, m) ==
    /\ HasOp(c, "add", m) /\ CommitsOf(c, m) # <<>> /\ HasOp(c, "pushed", m)
    /\ \E n \in DOMAIN c.mappings : c.mappings[n].id = m /\ c.k > n

Patterns == {"", "a", "b"}
PatternLists == UNION {[1..n -> Patterns] : n \in 0..MaxPatterns}

\* The .gitignore a directory may hold: none, one written by hand, or one
\* written by an earlier sync.
NoFile == <<>>
ManagedHeader == "# Managed by git-backup"
GitignoreFiles == {NoFile, <<"manual">>, <<ManagedHeader, "old">>}

\* part_002:101-102  .filter(Boolean): the non-empty patterns of a list.
FilterBoolean(patterns) == SelectSeq(patterns, LAMBDA x : x # "")

\* Mutant: a mapping with patterns of its own does not get the global ones.
allPatterns_MappingOverrides(globalIgnorePatterns, ignorePatterns) ==
    IF FilterBoolean(ignorePatterns) # <<>> THEN FilterBoolean(ignorePatterns)
    ELSE FilterBoolean(globalIgnorePatterns)

\* part_002:101-103  allPatterns = [...globalPatterns, ...mappingPatterns]
allPatterns(globalIgnorePatterns, ignorePatterns) ==
    FilterBoolean(globalIgnorePatterns) \o FilterBoolean(ignorePatterns)

\* part_002:93-118  rsyncArgs
rsyncArgs(globalIgnorePatterns, ignorePatterns, sourceGitignore) ==
    LET all == allPatterns(globalIgnorePatterns, ignorePatterns) IN
    <<(<<"-av">>), (<<"--delete">>),
      (<<"--exclude", ".git">>), (<<"--exclude", ".gitignore">>)>>
    \o [n \in 1..Len(all) |-> <<"--exclude", all[n]>>]
    \o (IF sourceGitignore # NoFile
        THEN <<(<<"--exclude-from", "sourceDir/.gitignore">>)>> ELSE <<>>)
    \o <<(<<"sourceDir/">>), (<<"targetDir/">>)>>

\* rsync --delete with the arguments args: the .gitignore of targetDir after
\* the run.  An excluded name is neither copied nor deleted; otherwise the
\* target's file becomes the source's.
RsyncGitignore(args, sourceGitignore, targetGitignore) ==
    IF \E n \in DOMAIN args : args[n] = <<"--exclude", ".gitignore">>
    THEN targetGitignore
    ELSE sourceGitignore

\* Mutant: the managed file is written even when there is no pattern.
ManagedWritten_Always(all) == TRUE

\* part_002:125  if (allPatterns.length > 0)
ManagedWritten(all) == Len(all) > 0

\* part_002:124-130  the managed .gitignore of targetDir after the sync: the
\* lines of '# Managed by git-backup\n' + allPatterns.join('\n') + '\n'.
WriteManaged(all, targetGitignore) ==
    IF ManagedWritten(all) THEN <<ManagedHeader>> \o all ELSE targetGitignore

IgnoreInit ==
    /\ booted = FALSE
    /\ backupInProgress = FALSE
    /\ pc = [i \in Invocations |-> "idle"]
    /\ cyc = [i \in Invocations |-> NoCycle]
    /\ store = HistoryStore
    /\ source = [m \in MappingIds |-> 0]
    /\ repo = NoRepo
    /\ remote = [content |-> [p \in Paths |-> 0], sha |-> 0, msg |-> "old",
                 branch |-> TRUE]
    /\ history = <<>>
    /\ nextSha = 1
    /\ nTriggers = 0
    /\ foundClear = 0
    /\ started = 0
    /\ faults = 0
    /\ answer = NoAnswer

\* part_002:93-130  one mapping is synced: the arguments are built, rsync
\* runs (and may fail: part_002:121-122 throw before the managed file is
\* written), and the managed .gitignore is written.
SyncMapping ==
    /\ answer = NoAnswer
    /\ \E g \in PatternLists, m \in PatternLists,
          src \in GitignoreFiles, before \in GitignoreFiles, ok \in BOOLEAN :
         LET args == rsyncArgs(g, m, src)
             synced == RsyncGitignore(args, src, before)
         IN  answer' = [op |-> "sync",
                        globalIgnorePatterns |-> g, ignorePatterns |-> m,
                        sourceGitignore |-> src, before |-> before,
                        args |-> args, rsyncOk |-> ok,
                        after |-> IF ok
                                  THEN WriteManaged(allPatterns(g, m), synced)
                                  ELSE synced]
    /\ UNCHANGED <<booted, backupInProgress, pc, cyc, store, source, repo,
                   remote, history, nextSha, nTriggers, foundClear, started,
                   faults>>

IgnoreNext == SyncMapping

IgnoreSpec == IgnoreInit /\ [][IgnoreNext]_vars

\* The exclusion arguments among args, in order.
Exclusions(args) ==
    SelectSeq(args, LAMBDA x : x[1] \in {"--exclude", "--exclude-from"})
\* The non-empty patterns of a list, as a set.
NonEmpty(patterns) == {patterns[n] : n \in DOMAIN patterns} \ {""}
\* The non-empty patterns of a list up to place n, in order.
RECURSIVE Kept(_, _)
Kept(patterns, n) ==
    IF n = 0 THEN <<>>
    ELSE Kept(patterns, n - 1)
         \o (IF patterns[n] = "" THEN <<>> ELSE <<patterns[n]>>)

\* C27: the exclusion arguments are, in order, .git, .gitignore, the
\* non-empty global patterns in list order, the non-empty mapping patterns in
\* list order and, only if sourceDir holds a .gitignore, the exclude-from
\* reference to it; every non-empty pattern of either list is among them.
C27_ExclusionArguments ==
    answer.op = "sync" =>
        LET ex == Exclusions(answer.args)
            g == Kept(answer.globalIgnorePatterns, Len(answer.globalIgnorePatterns))
            m == Kept(answer.ignorePatterns, Len(answer.ignorePatterns))
            from == answer.sourceGitignore # NoFile
        IN  /\ Len(ex) = 2 + Len(g) + Len(m) + (IF from THEN 1 ELSE 0)
            /\ ex[1] = <<"--exclude", ".git">>
            /\ ex[2] = <<"--exclude", ".gitignore">>
            /\ \A n \in 1..Len(g) : ex[2 + n] = <<"--exclude", g[n]>>
            /\ \A n \in 1..Len(m) : ex[2 + Len(g) + n] = <<"--exclude", m[n]>>
            /\ from => ex[Len(ex)] = <<"--exclude-from", "sourceDir/.gitignore">>
            /\ \A x \in NonEmpty(answer.globalIgnorePatterns)
                        \cup NonEmpty(answer.ignorePatterns) :
                   \E n \in DOMAIN ex : ex[n] = <<"--exclude", x>>
            /\ \A n \in DOMAIN ex : ex[n] # <<"--exclude", "">>

\* C27 witness: both lists hold a pattern and an empty string, and sourceDir
\* holds a .gitignore.
C27_Witness ==
    /\ answer.op = "sync"
    /\ answer.globalIgnorePatterns = <<"", "a">>
    /\ answer.ignorePatterns = <<"b", "">>
    /\ answer.sourceGitignore # NoFile
    /\ Len(Exclusions(answer.args)) = 5

\* C28: after a successful file sync the managed .gitignore of targetDir is
\* written exactly when the combined pattern list is non-empty; it then
\* consists of the managed header followed by the combined patterns in order,
\* whatever the file held before; with an empty combined list the file is as
\* it was before the sync, absent if it was absent.
C28_ManagedGitignore ==
    (answer.op = "sync" /\ answer.rsyncOk) =>
        LET g == Kept(answer.globalIgnorePatterns, Len(answer.globalIgnorePatterns))
            m == Kept(answer.ignorePatterns, Len(answer.ignorePatterns))
        IN  IF g \o m # <<>>
            THEN answer.after = <<ManagedHeader>> \o g \o m
            ELSE answer.after = answer.before

\* C28 witness: a sync with patterns replaced a .gitignore written by hand.
C28_Witness ==
    /\ answer.op = "sync" /\ answer.rsyncOk
    /\ answer.before = <<"manual">>
    /\ answer.after = <<ManagedHeader, "a", "b">>

\* The steps of a mapping's sync, in the order of part_002:120-150 and
\* part_004:122: file sync, status query, stage, commit-message tool, push
\* called, push done, commit id read, history entry appended.
SyncOrder == <<"rsync", "status", "add", "copilot", "push", "pushed",
               "outcome", "history">>
\* The names of the steps cycle c has taken for mapping m, commits included,
\* in the order in which they were taken.
StepsOf(c, m) ==
    LET hits == SelectSeq(c.ops, LAMBDA o :
                    o[2] = m /\ o[1] \in Range(SyncOrder) \cup {"committed", "commit"})
    IN  [n \in DOMAIN hits |-> hits[n][1]]

\* C29: within a mapping's sync each step is taken at most once and the steps
\* come in the order file sync, status, stage, commit, push, commit id,
\* history, none before the one it follows; the commits of a mapping lie
\* between its stage and its push; a history entry is appended only by an
\* invocation whose push for the current mapping has succeeded, so every entry
\* of a running cycle names a mapping with a successful push; and a cycle that
\* returns without a success entry has appended nothing.
C29_HistoryAfterPush ==
    /\ [](\A i \in Invocations :
            LET c == cyc[i] IN
            /\ \A m \in MappingIds :
                  LET all == StepsOf(c, m)
                      main == SelectSeq(all, LAMBDA x : x \in Range(SyncOrder))
                  IN  /\ main = SubSeq(SyncOrder, 1, Len(main))
                      /\ \A n \in DOMAIN all :
                            all[n] \in {"committed", "commit"} =>
                                /\ n > 3 /\ all[3] = "add"
                                /\ \A k \in 1..n : all[k] # "push"
            /\ \A n \in DOMAIN history :
                  history[n].timestamp = c.no =>
                      /\ HasOp(c, "pushed", history[n].mappingId)
                      /\ \E r \in ResultsFor(c, history[n].mappingId) : IsSuccess(r)
            /\ (pc[i] = "returned" /\ \A n \in DOMAIN c.results :
                                         ~IsSuccess(c.results[n])) =>
                  HistoryOf(c) = <<>>)
    /\ [][history' # history =>
            \E i \in Invocations :
                /\ pc[i] = "log"
                /\ HasOp(cyc[i], "pushed", Current(cyc[i]).id)
                /\ history' = addHistoryEntry(history, Entry(cyc[i], repo.sha))]_vars

\* C29 witness: a cycle returned whose first mapping failed at the push and
\* whose second mapping reported no change, and the history is empty.
C29_Witness ==
    \E i \in Invocations :
        /\ pc[i] = "returned" /\ Len(cyc[i].results) = 2
        /\ IsError(cyc[i].results[1]) /\ cyc[i].results[1].error = "push"
        /\ IsNoChange(cyc[i].results[2])
        /\ history = <<>>

\* ------------------------------------------------- configuration recovery
\* The runs below follow one cycle of runFullBackup through the statements
\* that read the Settings: `store` is the file at CONFIG_FILE, `remote` the
\* JSON files of the remote repository, `repo` those of the working copy,
\* cyc[1] the locals of the cycle and pc[1] its position.

\* The Settings a configuration file may hold.
ConfigPaths == {"p.json", "sub/q.json"}     \* JSON files of the repository
RootPaths == {"p.json"}                     \* those at the repository root
SettingsValues == [globalIgnorePatterns : {<<>>, <<"a">>},
                   configBackupPath : {""} \cup ConfigPaths]

\* A configuration file: its mappings array ("empty", or "some" when it is
\* non-empty and its first element has a sourceDir) and its settings.
NoConfig == [mappings |-> "absent"]
ConfigFiles == [mappings : {"empty", "some"}, settings : SettingsValues]
Exists(file) == file.mappings # "absent"
\* A JSON file of the repository that holds no mappings array.
OtherJson == [mappings |-> "none"]
\* part_004:45  Array.isArray(data.mappings)
IsArray(file) == file.mappings \in {"empty", "some"}

\* config.js getSettings(): the settings of the file at CONFIG_FILE, the
\* defaults when there is no file.
getSettings(file, defaults) == IF Exists(file) THEN file.settings ELSE defaults

\* part_004:34-77  restoreConfigFromRepo(repoDir): the file copied to
\* CONFIG_FILE, NoConfig when the function returns false. The explicit path
\* needs a mappings array (:45), a discovered file a non-empty one (:65).
restoreConfigFromRepo(files, explicit) ==
    IF explicit # "" /\ Exists(files[explicit]) /\ IsArray(files[explicit])
    THEN files[explicit]
    ELSE IF \E p \in RootPaths : files[p].mappings = "some"
         THEN files[CHOOSE p \in RootPaths : files[p].mappings = "some"]
         ELSE NoConfig

\* Mutant: the restore is attempted in every cycle.
NeedsRestore_Always(file) == TRUE

\* part_004:92  if (!fs.existsSync(CONFIG_FILE))
NeedsRestore(file) == ~Exists(file)

RecoveryCycle(env, defaults) ==
    [CONFIG_BACKUP_PATH |-> env, defaults |-> defaults,
     settings |-> defaults, globalIgnorePatterns |-> <<>>,
     restored |-> FALSE, synced |-> <<>>, mirrored |-> ""]

RecoveryInit ==
    /\ booted = FALSE
    /\ backupInProgress = FALSE
    /\ pc = [i \in Invocations |-> "idle"]
    /\ \E env \in {""} \cup ConfigPaths, defaults \in SettingsValues :
         cyc = [i \in Invocations |-> RecoveryCycle(env, defaults)]
    /\ store \in {NoConfig} \cup ConfigFiles
    /\ source = [m \in MappingIds |-> 0]
    /\ repo = [p \in ConfigPaths |-> NoConfig]
    /\ remote \in [ConfigPaths -> {NoConfig, OtherJson} \cup ConfigFiles]
    /\ history = <<>>
    /\ nextSha = 1
    /\ nTriggers = 0
    /\ foundClear = 0
    /\ started = 0
    /\ faults = 0
    /\ answer = NoAnswer

\* A step of the cycle from position `from` to position `to`.
RecoveryStep(from, to, c) ==
    /\ pc[1] = from
    /\ pc' = [pc EXCEPT ![1] = to]
    /\ cyc' = [cyc EXCEPT ![1] = c]
    /\ UNCHANGED <<booted, source, remote, history, nextSha, nTriggers,
                   foundClear, started, faults, answer>>

\* part_004:80-87  the cycle starts: the guard is set, the Settings are read
\* and their patterns attached to globalConfig.
ReadSettings ==
    LET settings == getSettings(store, cyc[1].defaults)
    IN  /\ ~backupInProgress
        /\ backupInProgress' = TRUE
        /\ RecoveryStep("idle", "prepareRepo",
               [cyc[1] EXCEPT !.settings = settings,
                              !.globalIgnorePatterns = settings.globalIgnorePatterns])
        /\ UNCHANGED <<store, repo>>

\* part_004:89  prepareRepo: the working copy is a fresh clone of the remote.
CloneRepo ==
    /\ repo' = remote
    /\ RecoveryStep("prepareRepo", "restore", cyc[1])
    /\ UNCHANGED <<backupInProgress, store>>

\* part_004:92-99  without a file at CONFIG_FILE the configuration is looked
\* for in the working copy; when one is restored, the Settings are read again
\* and their patterns attached to globalConfig.
RestoreConfig ==
    LET found == IF NeedsRestore(store)
                 THEN restoreConfigFromRepo(repo, cyc[1].CONFIG_BACKUP_PATH)
                 ELSE NoConfig
        restoredSettings == getSettings(found, cyc[1].defaults)
    IN  /\ store' = IF Exists(found) THEN found ELSE store
        /\ RecoveryStep("restore", "mappings",
               [cyc[1] EXCEPT !.restored = Exists(found),
                              !.globalIgnorePatterns =
                                  IF Exists(found)
                                  THEN restoredSettings.globalIgnorePatterns
                                  ELSE @])
        /\ UNCHANGED <<backupInProgress, repo>>

\* part_004:108-110  every mapping is synced with globalConfig.
SyncMappings ==
    /\ RecoveryStep("mappings", "configBackup",
           [cyc[1] EXCEPT !.synced = @ \o <<cyc[1].globalIgnorePatterns>>])
    /\ UNCHANGED <<backupInProgress, store, repo>>

\* part_004:204-215  the file at CONFIG_FILE is copied to
\* settings.configBackupPath of the working copy; the cycle ends (:230).
BackupConfig ==
    LET to == cyc[1].settings.configBackupPath
        copies == to # "" /\ Exists(store)
    IN  /\ repo' = IF copies THEN [repo EXCEPT ![to] = store] ELSE repo
        /\ backupInProgress' = FALSE
        /\ RecoveryStep("configBackup", "returned",
               [cyc[1] EXCEPT !.mirrored = IF copies THEN to ELSE ""])
        /\ UNCHANGED store

RecoveryNext ==
    \/ ReadSettings
    \/ CloneRepo
    \/ RestoreConfig
    \/ SyncMappings
    \/ BackupConfig

RecoverySpec == RecoveryInit /\ [][RecoveryNext]_vars

\* The patterns every mapping sync of a recovering cycle was given are those
\* of the recovered Settings.
RecoveredPatternsUsed ==
    (pc[1] \in {"configBackup", "returned"} /\ cyc[1].restored) =>
        \A n \in DOMAIN cyc[1].synced :
            cyc[1].synced[n] =
                getSettings(store, cyc[1].defaults).globalIgnorePatterns

\* The config-mirroring step of a recovering cycle copies the configuration
\* to the configBackupPath of the recovered Settings (nowhere when that path
\* is empty).
RecoveredBackupPathUsed ==
    (pc[1] = "returned" /\ cyc[1].restored) =>
        cyc[1].mirrored = getSettings(store, cyc[1].defaults).configBackupPath

\* C30: when a cycle recovers the mapping configuration from the freshly
\* cloned repository, the rest of the cycle uses the recovered Settings: the
\* global ignore patterns given to every mapping sync and the
\* configBackupPath used by the config-mirroring step are both the values
\* read after the recovery, not those read at the start of the cycle.
C30_RecoveredSettingsUsed ==
    RecoveredPatternsUsed /\ RecoveredBackupPathUsed

\* C31: the configuration file changes only in the restore step of a cycle
\* that found no local file; an existing local file is never overwritten with
\* content of the repository, and what a recovery installs is a document of
\* the working copy that holds a mappings array.
C31_RecoveryOnlyWhenMissing ==
    [][store' # store =>
          /\ ~Exists(store) /\ pc[1] = "restore"
          /\ IsArray(store')
          /\ \E p \in ConfigPaths : repo[p] = store']_vars

\* C31 witness: a cycle ended that found a local file and left it alone while
\* the repository root held another valid configuration, next to a JSON file
\* without a mappings array at the configured explicit path.
C31_Witness ==
    /\ pc[1] = "returned" /\ ~cyc[1].restored /\ Exists(store)
    /\ remote["p.json"].mappings = "some" /\ remote["p.json"] # store
    /\ cyc[1].CONFIG_BACKUP_PATH = "sub/q.json" /\ remote["sub/q.json"] = OtherJson

\* ------------------------------------------------------------ housekeeping
\* The positions of the housekeeping part of a cycle (part_004:133-228).
HkPcs == {"housekeeping", "hkStatus", "hkAdd", "hkCommit", "hkPush"}

\* A cycle makes at most one housekeeping commit.
OneHousekeepingCommit ==
    \A i \in Invocations :
        Cardinality({n \in DOMAIN cyc[i].ops :
                        cyc[i].ops[n][1] = "committed" /\ cyc[i].ops[n][2] = Meta}) <= 1

\* Whatever fails during housekeeping, the cycle goes on to return normally
\* with the results the mapping loop recorded.
HousekeepingFailuresCaught ==
    [][\A i \in Invocations :
          pc[i] \in HkPcs =>
              /\ pc'[i] \in HkPcs \cup {"returned"}
              /\ cyc'[i].results = cyc[i].results]_vars

\* The housekeeping commit holds changed housekeeping files and nothing of a
\* mapping's target directory.
HousekeepingCommitIsSeparate ==
    [][\A i \in Invocations :
          (pc[i] = "hkCommit" /\ pc'[i] = "hkPush") =>
              /\ repo'.head[Meta] # repo.head[Meta]
              /\ \A m \in MappingIds : repo'.head[m] = repo.head[m]]_vars

\* C32: housekeeping makes at most one commit per cycle, apart from the
\* commits of the mappings and only when housekeeping left uncommitted
\* changes; a failure of the README update, the config copy or the
\* housekeeping commit and push is caught, changes no recorded result and
\* does not make the cycle fail.
C32_Housekeeping ==
    /\ []OneHousekeepingCommit
    /\ HousekeepingFailuresCaught
    /\ HousekeepingCommitIsSeparate

\* ------------------------------------------------------------ prepareRepo
\* The cycle of invocation i ended because prepareRepo rejected.
PrepareRejected(i) ==
    /\ pc[i] = "threw"
    /\ \E n \in DOMAIN cyc[i].ops : cyc[i].ops[n][1] = "prepareFailed"

\* A failed checkout leads to the creation of the local branch and never
\* fails prepareRepo by itself; the error of a failed creation is the one
\* prepareRepo rejects with; the first push creates the branch upstream.
BranchCreatedWhenMissing ==
    [][\A i \in Invocations :
          /\ pc[i] = "checkout" => pc'[i] \in {"checkout", "addConfig", "checkoutLocal"}
          /\ (pc[i] = "checkoutLocal" /\ pc'[i] # pc[i]) =>
                \/ pc'[i] = "addConfig"
                \/ pc'[i] = "threw" /\ cyc'[i].exit = "checkout"
          /\ (pc[i] # "threw" /\ pc'[i] = "threw" /\ cyc'[i].exit = "checkout") =>
                pc[i] = "checkoutLocal"
          /\ (pc[i] = "push" /\ pc'[i] = "log" /\ remote' # remote) =>
                remote'.branch]_vars

\* C33 as stated: a failed checkout after a successful clone makes prepareRepo
\* create the branch locally and succeed, the cycle goes on and its first push
\* creates the branch upstream; prepareRepo fails only if the clone fails or
\* both the checkout and the local branch creation fail.
C33_PrepareFailsOnlyOnCloneOrBranch ==
    /\ BranchCreatedWhenMissing
    /\ [](\A i \in Invocations :
             PrepareRejected(i) => cyc[i].exit \in {"clone", "checkout"})

\* C33, amended: prepareRepo also fails when one of the addConfig calls that
\* follow the checkout fails.
C33_PrepareRepo ==
    /\ BranchCreatedWhenMissing
    /\ [](\A i \in Invocations :
             PrepareRejected(i) => cyc[i].exit \in {"clone", "checkout", "gitconfig"})

\* C33 witness: without any failed call, a cycle against a repository whose
\* branch does not exist yet has synced and committed its first mapping and
\* is about to push.
C33_Witness ==
    \E i \in Invocations :
        /\ pc[i] = "push" /\ cyc[i].k = 1 /\ ~remote.branch /\ faults = 0
        /\ repo.head # remote.content

\* ------------------------------------------------- one mapping's outcome
\* C34: the files counted for a mapping and the commit made for it hold only
\* changes under that mapping's target directory, also when an earlier
\* mapping of the cycle failed after it had changed the working copy.
C34_OwnChangesOnly ==
    /\ [](\A i \in Invocations :
             pc[i] = "add" => StatusFiles(repo) \subseteq TargetPaths(Current(cyc[i])))
    /\ [][\A i \in Invocations :
             (pc[i] \in {"add", "fallbackCommit"} /\ repo'.head # repo.head) =>
                 \A p \in Paths \ TargetPaths(Current(cyc[i])) :
                     repo'.head[p] = repo.head[p]]_vars

\* C35: when a cycle ends, a mapping whose result is an error has none of the
\* commits made during its sync on the remote (the commits of a cycle lie on
\* one line, so a commit is on the remote when the remote branch is at it or
\* at a later one), and a mapping whose push succeeded has no error result.
C35_ErrorMeansNotPushed ==
    [][\A i \in Invocations :
          (pc[i] # "returned" /\ pc'[i] = "returned") =>
              \A n \in DOMAIN cyc'[i].results :
                  LET r == cyc'[i].results[n]
                      commits == CommitsOf(cyc'[i], r.mappingId)
                  IN  IsError(r) =>
                        /\ ~HasOp(cyc'[i], "pushed", r.mappingId)
                        /\ \A k \in DOMAIN commits : remote'.sha < commits[k][3]]_vars

\* C36: whenever runBackupForMapping returns an outcome, the commit id it
\* returns is that of a commit made during the call which holds the staged
\* changes, and the message it returns is that commit's message, whatever the
\* commit tool did.
C36_OutcomeNamesOwnCommit ==
    [][\A i \in Invocations :
          (pc[i] = "log" /\ Len(Did(cyc'[i], "outcome")) > Len(Did(cyc[i], "outcome"))) =>
              LET commits == CommitsOf(cyc[i], Current(cyc[i]).id)
              IN  /\ commits # <<>>
                  /\ commits[Len(commits)][3] = repo.sha
                  /\ commits[Len(commits)][4] = cyc[i].commitMessage
                  /\ repo.head = repo.index]_vars

\* C37: the file sync of a mapping changes nothing in the working copy but
\* that mapping's own part of the tree: the target directories of the other
\* mappings and the housekeeping files stay as they were, also when the
\* mapping's target directory is the root of the repository.
C37_SyncTouchesOwnDirectoryOnly ==
    [][\A i \in Invocations :
          (pc[i] = "loop" /\ repo'.wt # repo.wt) =>
              \A p \in Paths \ {Current(cyc[i]).id} : repo'.wt[p] = repo.wt[p]]_vars

\* C38: a call of runFullBackup that finds the guard set is rejected without
\* changing the guard, the working copy, the remote, the history store or
\* anything of the running cycle (its position, its results); the guard goes
\* back to false only in the step in which a running cycle ends.
C38_RejectedLeavesCycleUntouched ==
    [][/\ \A j \in Invocations :
             (pc[j] = "idle" /\ pc'[j] = "rejected") =>
                 /\ backupInProgress /\ backupInProgress'
                 /\ UNCHANGED <<repo, remote, history, store, source>>
                 /\ \A i \in Invocations \ {j} : pc'[i] = pc[i] /\ cyc'[i] = cyc[i]
       /\ (backupInProgress /\ ~backupInProgress') => LeavesCycle]_vars

\* C38 witness: a scheduled tick was rejected while a cycle that has already
\* recorded a result is waiting for its next push.
C38_Witness ==
    \E i, j \in Invocations :
        /\ pc[j] = "rejected" /\ cyc[j].kind = "cron" /\ cyc[j].exit = "conflict"
        /\ pc[i] = "push" /\ Len(cyc[i].results) = 1 /\ backupInProgress

\* ------------------------------------------- the configuration during a cycle
\* One cycle of runFullBackup after another (part_004:79-231, with a local
\* configuration file, so that the restore of :92-99 is skipped) while the
\* mapping and settings routes (part_004:264-302) change the stored
\* configuration between the cycle's awaits.  The store is
\* [mappings, settings]; cyc[1] holds what the cycle keeps of it:
\* globalConfig.globalIgnorePatterns (:87), the local array `mappings` (:101),
\* the position k of the for-of loop (:108) and, as a log, what every call of
\* runBackupForMapping (:110) was given.
\* The request bodies of these runs: two subdirectories, so that the store
\* holds at most two mappings.
LiveSubdirs == {"a", "b"}
LivePostBodies == [name : {"n"}, repoSubdir : LiveSubdirs, enabled : BOOLEAN]
LivePutBodies == [repoSubdir : LiveSubdirs] \cup [enabled : BOOLEAN]
PatternSettings == {<<>>, <<"a">>}
SettingsBodies == [globalIgnorePatterns : PatternSettings]

LiveCycle == [globalIgnorePatterns |-> <<>>, mappings |-> <<>>, k |-> 0,
              synced |-> <<>>]

\* Mutant: the sync takes the patterns of the Settings as they are stored now.
SyncPatterns_Stored(held, stored) == stored

\* part_002:101  globalConfig.globalIgnorePatterns, the array attached to
\* globalConfig at part_004:87, whatever the store holds by now.
SyncPatterns(held, stored) == held

LiveInit ==
    /\ booted = FALSE
    /\ backupInProgress = FALSE
    /\ pc = [i \in Invocations |-> "idle"]
    /\ cyc = [i \in Invocations |-> LiveCycle]
    /\ store = [mappings |-> <<>>, settings |-> [globalIgnorePatterns |-> <<>>]]
    /\ source = [m \in MappingIds |-> 0]
    /\ repo = NoRepo
    /\ remote = [content |-> [p \in Paths |-> 0], sha |-> 0, msg |-> "old",
                 branch |-> TRUE]
    /\ history = <<>>
    /\ nextSha = 1
    /\ nTriggers = 0
    /\ foundClear = 0
    /\ started = 0
    /\ faults = 0
    /\ answer = NoAnswer

\* A route changes the stored configuration and nothing of the cycle.
LiveRoute(config) ==
    /\ store' = config
    /\ UNCHANGED <<booted, backupInProgress, pc, cyc, source, repo, remote,
                   history, nextSha, nTriggers, foundClear, started, faults,
                   answer>>

\* The stored configuration after a mapping call that returned `result`.
AfterCall(result) ==
    IF result = Thrown THEN store ELSE [store EXCEPT !.mappings = result.mappings]

\* part_004:264-271  POST /mappings
LivePostMapping ==
    \E body \in LivePostBodies,
       id \in IdPool \ {store.mappings[n].id : n \in DOMAIN store.mappings} :
        LiveRoute(AfterCall(addMapping(store.mappings, id, body)))

\* part_004:273-280  PUT /mappings/:id
LivePutMapping ==
    \E id \in IdPool, body \in LivePutBodies :
        LiveRoute(AfterCall(updateMapping(store.mappings, id, body)))

\* part_004:282-289  DELETE /mappings/:id
LiveDeleteMapping ==
    \E id \in IdPool :
        LiveRoute(AfterCall(deleteMapping(store.mappings, id)))

\* part_004:295-302  PUT /settings: updateSettings(req.body)
LivePutSettings ==
    \E body \in SettingsBodies :
        LiveRoute([store EXCEPT !.settings = body])

\* A step of the cycle from position `from` to position `to`.
LiveStep(from, to, c) ==
    /\ pc[1] \in from
    /\ pc' = [pc EXCEPT ![1] = to]
    /\ cyc' = [cyc EXCEPT ![1] = c]
    /\ UNCHANGED <<booted, store, source, repo, remote, history, nextSha,
                   nTriggers, foundClear, started, faults, answer>>

\* part_004:80-89  a cycle starts: the guard is set, the Settings are read,
\* their patterns are attached to globalConfig, and prepareRepo is awaited.
LiveReadSettings ==
    /\ ~backupInProgress
    /\ backupInProgress' = TRUE
    /\ LiveStep({"idle", "returned"}, "prepareRepo",
           [LiveCycle EXCEPT !.globalIgnorePatterns =
                                 store.settings.globalIgnorePatterns])

\* part_004:101-108  after prepareRepo the mappings are read into the local
\* array the loop runs over.
LiveReadMappings ==
    /\ LiveStep({"prepareRepo"}, "loop",
           [cyc[1] EXCEPT !.mappings = SelectMappings(store.mappings, NoId),
                          !.k = 1])
    /\ UNCHANGED backupInProgress

\* part_004:108-110  the loop calls runBackupForMapping with its next mapping
\* and globalConfig, and awaits it.
LiveSyncMapping ==
    /\ cyc[1].k <= Len(cyc[1].mappings)
    /\ LiveStep({"loop"}, "loop",
           [cyc[1] EXCEPT
               !.synced = Append(@,
                   [mapping |-> cyc[1].mappings[cyc[1].k],
                    patterns |-> SyncPatterns(cyc[1].globalIgnorePatterns,
                                     store.settings.globalIgnorePatterns)]),
               !.k = @ + 1])
    /\ UNCHANGED backupInProgress

\* part_004:131-231  the loop is over, the cycle ends and clears the guard.
LiveReturn ==
    /\ cyc[1].k > Len(cyc[1].mappings)
    /\ backupInProgress' = FALSE
    /\ LiveStep({"loop"}, "returned", cyc[1])

LiveNext ==
    \/ LivePostMapping
    \/ LivePutMapping
    \/ LiveDeleteMapping
    \/ LivePutSettings
    \/ LiveReadSettings
    \/ LiveReadMappings
    \/ LiveSyncMapping
    \/ LiveReturn

LiveSpec == LiveInit /\ [][LiveNext]_vars

\* What the cycle that has just read the store is given by it.
ReadsCurrentStore ==
    /\ (pc[1] # "prepareRepo" /\ pc'[1] = "prepareRepo") =>
           cyc'[1].globalIgnorePatterns = store.settings.globalIgnorePatterns
    /\ (pc[1] = "prepareRepo" /\ pc'[1] = "loop") =>
           /\ \A n \in DOMAIN cyc'[1].mappings :
                 \E s \in DOMAIN store.mappings :
                     cyc'[1].mappings[n] = store.mappings[s]
           /\ \A s \in DOMAIN store.mappings :
                 store.mappings[s].enabled =>
                     \E n \in DOMAIN cyc'[1].mappings :
                         cyc'[1].mappings[n] = store.mappings[s]

\* C39: what a cycle syncs is fixed when it reads the store: its list of
\* mappings and its patterns change in no step but the cycle's own reads, the
\* n-th sync of the cycle is given the n-th mapping of the list as read and
\* the patterns as read, whatever the routes have stored since; and a cycle
\* that starts later reads the configuration stored by then.
C39_ConfigurationFixedWhenRead ==
    /\ [](\A n \in DOMAIN cyc[1].synced :
             /\ cyc[1].synced[n].mapping = cyc[1].mappings[n]
             /\ cyc[1].synced[n].patterns = cyc[1].globalIgnorePatterns)
    /\ [][/\ pc[1] = "loop" =>
                /\ cyc'[1].mappings = cyc[1].mappings
                /\ cyc'[1].globalIgnorePatterns = cyc[1].globalIgnorePatterns
          /\ (pc[1] = "prepareRepo" /\ pc'[1] = "prepareRepo") =>
                cyc'[1].globalIgnorePatterns = cyc[1].globalIgnorePatterns
          /\ ReadsCurrentStore]_vars

\* C39 witness: a cycle has synced two mappings with the patterns it read,
\* while the store by now holds other patterns, has the first of the two
\* mappings disabled and the second deleted.
C39_Witness ==
    /\ pc[1] = "returned" /\ Len(cyc[1].synced) = 2
    /\ cyc[1].synced[1].patterns # store.settings.globalIgnorePatterns
    /\ \E s \in DOMAIN store.mappings :
          /\ store.mappings[s].id = cyc[1].synced[1].mapping.id
          /\ ~store.mappings[s].enabled
    /\ \A s \in DOMAIN store.mappings :
          store.mappings[s].id # cyc[1].synced[2].mapping.id

\* ------------------------------------------------ backup.js run on its own
\* backup.js executed directly in scheduled mode (part_002:183-228): the
\* module runs runBackup() once and again at every tick of the schedule.
\* pc[i] is the await at which the i-th call of runBackup is suspended,
\* cyc[i] says what started it; all calls work on the one working copy `repo`
\* with the one mapping built from BACKUP_DIR and REPO_SUBDIR (the root of
\* the repository by default).
StandaloneMapping == Mapping(1, TRUE, FALSE, TRUE)
StandaloneRun(kind) == [kind |-> kind, exit |-> "none"]
\* The awaits of prepareRepo and runBackupForMapping between which a call of
\* runBackup removes, clones, changes or pushes the working copy.
StandalonePcs == {"clone", "checkout", "checkoutLocal", "addConfig", "status",
                  "add", "copilotLog", "fallbackCommit", "push", "log"}

StandaloneInit ==
    /\ booted = FALSE
    /\ backupInProgress = FALSE
    /\ pc = [i \in Invocations |-> "idle"]
    /\ cyc = [i \in Invocations |-> StandaloneRun("none")]
    /\ store = <<>>
    /\ source = [m \in MappingIds |-> 0]
    /\ remote \in {[content |-> [p \in Paths |-> 0], sha |-> 0, msg |-> "old",
                    branch |-> b] : b \in BOOLEAN}
    /\ repo \in {NoRepo, [exists |-> TRUE, wt |-> remote.content,
                          index |-> remote.content, head |-> remote.content,
                          sha |-> remote.sha, msg |-> remote.msg]}
    /\ history = <<>>
    /\ nextSha = 1
    /\ nTriggers = 0
    /\ foundClear = 0
    /\ started = 0
    /\ faults = 0
    /\ answer = NoAnswer

\* Mutant: a call of runBackup made while another is running returns at once.
StartsRun_Guarded(running) == ~running

\* part_002:198-200  runBackup tests nothing before it calls prepareRepo.
StartsRun(running) == TRUE

\* part_002:198-200 and :42-54  runBackup() up to its first await: prepareRepo
\* removes the working copy and starts the clone.
runBackup(i, kind) ==
    /\ FreeSlot(i)
    /\ nTriggers < MaxTriggers
    /\ nTriggers' = nTriggers + 1
    /\ cyc' = [cyc EXCEPT ![i] = StandaloneRun(kind)]
    /\ IF StartsRun(\E j \in Invocations : pc[j] \in StandalonePcs)
       THEN /\ pc' = [pc EXCEPT ![i] = "clone"]
            /\ repo' = RemoveWorkingCopy(repo)
       ELSE /\ pc' = [pc EXCEPT ![i] = "returned"]
            /\ UNCHANGED repo
    /\ UNCHANGED <<backupInProgress, store, source, remote, history, nextSha,
                   foundClear, started, faults, answer>>

\* part_002:213  runBackup() when the scheduler starts
StandaloneInitial ==
    /\ ~booted
    /\ booted' = TRUE
    /\ \E i \in Invocations : runBackup(i, "init")

\* part_002:216-218  cron.schedule(cronExpression, () => { runBackup() ... })
StandaloneTick ==
    /\ booted
    /\ UNCHANGED booted
    /\ \E i \in Invocations : runBackup(i, "cron")

\* The awaited call of run i at position `from` settles: it succeeds only in
\* an existing working copy; an error leaves runBackup (no try block in
\* part_002:198-206) and is logged by the caller's catch (:213, :217).
Settles(i, from, ok, to, r, rem, sha) ==
    /\ pc[i] = from
    /\ Fault(ok)
    /\ IF ok /\ repo.exists
       THEN /\ pc' = [pc EXCEPT ![i] = to]
            /\ repo' = r /\ remote' = rem /\ nextSha' = sha
            /\ UNCHANGED cyc
       ELSE /\ pc' = [pc EXCEPT ![i] = "threw"]
            /\ cyc' = [cyc EXCEPT ![i].exit = from]
            /\ UNCHANGED <<repo, remote, nextSha>>
    /\ UNCHANGED <<booted, backupInProgress, store, source, history, nTriggers,
                   foundClear, started, answer>>

\* part_002:54  git clone settles: it fails when the directory has been
\* filled by another clone in the meantime.
StandaloneClone(i) ==
    /\ pc[i] = "clone"
    /\ \E ok \in Outcomes :
         /\ Fault(ok)
         /\ IF ok /\ ~repo.exists
            THEN /\ pc' = [pc EXCEPT ![i] = "checkout"]
                 /\ repo' = [exists |-> TRUE, wt |-> remote.content,
                             index |-> remote.content, head |-> remote.content,
                             sha |-> remote.sha, msg |-> remote.msg]
                 /\ UNCHANGED cyc
            ELSE /\ pc' = [pc EXCEPT ![i] = "threw"]
                 /\ cyc' = [cyc EXCEPT ![i].exit = "clone"]
                 /\ UNCHANGED repo
    /\ UNCHANGED <<booted, backupInProgress, store, source, remote, history,
                   nextSha, nTriggers, foundClear, started, answer>>

\* part_002:57-61  try { checkout } catch { checkoutLocalBranch }
StandaloneCheckout(i) ==
    /\ pc[i] = "checkout"
    /\ \E ok \in Outcomes :
         /\ Fault(ok)
         /\ pc' = [pc EXCEPT ![i] = IF ok /\ repo.exists /\ remote.branch
                                    THEN "addConfig" ELSE "checkoutLocal"]
    /\ UNCHANGED <<booted, backupInProgress, cyc, store, source, repo, remote,
                   history, nextSha, nTriggers, foundClear, started, answer>>

\* part_002:60  await repoGit.checkoutLocalBranch(branch)
StandaloneCheckoutLocal(i) ==
    \E ok \in Outcomes :
        Settles(i, "checkoutLocal", ok, "addConfig", repo, remote, nextSha)

\* part_002:63-65 and :74-132  the addConfig calls settle, prepareRepo
\* returns, and runBackupForMapping runs up to its first await: rsync into
\* the working copy (spawnSync), then the call of repoGit.status().
StandaloneAddConfig(i) ==
    \E ok \in Outcomes :
        Settles(i, "addConfig", ok, "status",
                [repo EXCEPT !.wt = Rsync(@, StandaloneMapping, source[1])],
                remote, nextSha)

\* part_002:132-141  status settles: null is returned when nothing differs,
\* else repoGit.add('.') is called.
StandaloneStatus(i) ==
    \E ok \in Outcomes :
        Settles(i, "status", ok,
                IF NoChanges(StatusFiles(repo)) THEN "returned" ELSE "add",
                repo, remote, nextSha)

\* part_002:141-171  add settles; commitWithCopilot runs copilot, which
\* commits or fails, and reads the log or makes the fallback commit.
StandaloneAdd(i) ==
    \E ok \in Outcomes, copilot \in BOOLEAN :
        LET staged == [repo EXCEPT !.index = repo.wt] IN
        Settles(i, "add", ok,
                IF copilot THEN "copilotLog" ELSE "fallbackCommit",
                IF copilot THEN Commit(staged, "ai", nextSha) ELSE staged,
                remote, IF copilot THEN nextSha + 1 ELSE nextSha)

\* part_002:170-172  the log is read back; an error leads to the fallback
\* commit.
StandaloneCopilotLog(i) ==
    /\ pc[i] = "copilotLog"
    /\ \E ok \in Outcomes :
         /\ Fault(ok)
         /\ pc' = [pc EXCEPT ![i] = IF ok /\ repo.exists
                                    THEN "push" ELSE "fallbackCommit"]
    /\ UNCHANGED <<booted, backupInProgress, cyc, store, source, repo, remote,
                   history, nextSha, nTriggers, foundClear, started, answer>>

\* part_002:173-176  await repoGit.commit(fallbackMessage)
StandaloneFallbackCommit(i) ==
    \E ok \in Outcomes :
        Settles(i, "fallbackCommit", ok, "push",
                Commit(repo, "fallback", nextSha), remote, nextSha + 1)

\* part_002:147  await repoGit.push(['--set-upstream', 'origin', branch])
StandalonePush(i) ==
    \E ok \in Outcomes :
        Settles(i, "push", ok, "log", repo, Pushed(repo), nextSha)

\* part_002:150-153 and :201-205  the log settles and runBackup returns.
StandaloneLog(i) ==
    \E ok \in Outcomes :
        Settles(i, "log", ok, "returned", repo, remote, nextSha)

\* BACKUP_DIR changes between two runs of rsync.
StandaloneEdit ==
    /\ \E v \in Versions \ {source[1]} : source' = [source EXCEPT ![1] = v]
    /\ \E i \in Invocations : pc[i] \in {"clone", "checkout"}
    /\ UNCHANGED <<booted, backupInProgress, pc, cyc, store, repo, remote,
                   history, nextSha, nTriggers, foundClear, started, faults,
                   answer>>

StandaloneNext ==
    \/ StandaloneInitial
    \/ StandaloneTick
    \/ StandaloneEdit
    \/ \E i \in Invocations :
         \/ StandaloneClone(i)
         \/ StandaloneCheckout(i)
         \/ StandaloneCheckoutLocal(i)
         \/ StandaloneAddConfig(i)
         \/ StandaloneStatus(i)
         \/ StandaloneAdd(i)
         \/ StandaloneCopilotLog(i)
         \/ StandaloneFallbackCommit(i)
         \/ StandalonePush(i)
         \/ StandaloneLog(i)

StandaloneSpec == StandaloneInit /\ [][StandaloneNext]_vars

\* C40: in standalone scheduled mode no two calls of runBackup are between
\* the removal of the working copy and their last git call at the same time:
\* a tick that fires while a run is in progress starts no overlapping run.
C40_NoOverlappingRuns ==
    Cardinality({i \in Invocations : pc[i] \in StandalonePcs}) <= 1
====
